---- MODULE Spec2Model ----
(***************************************************************************)
(* Data-access layer of TGProjectManager (src/db/crud.py over the schema   *)
(* of src/db/models.py).                                                   *)
(*                                                                         *)
(* The persisted tables are the variables.  Every crud function is an      *)
(* operator that maps the committed tables, a fault position and its       *)
(* arguments to a result record                                            *)
(*     [res |-> outcome, f |-> remaining fault position, db |-> tables],   *)
(* with one step of the fault position per awaited storage call            *)
(* (session.execute / get / commit / refresh), in the order of the code.   *)
(* A sequential action runs one whole crud call in a session of its own    *)
(* (handlers open `async with AsyncSessionLocal()` per request), so what   *)
(* survives the call is exactly what its commits persisted.                *)
(***************************************************************************)
EXTENDS Integers, Sequences, FiniteSets, TLC

\* ------------------------------------------------------------------ bounds
MaxUsers == 3
MaxProjects == 2
MaxUses == 2
MaxTime == 2
MaxTasks == 4
MaxFaultPos == 14

UserIds == 1..MaxUsers
ProjectIds == 1..MaxProjects
ProjectNames == {"alpha", "beta"}
InviteCodes == {"ABC"}
SessionIds == {1, 2}

\* None for integer columns (ids, counters and times start at 1)
NULL == 0
\* None for the username column
NoUsername == "None"

\* None for string columns and string arguments
None == "None"
\* crud.sentinel, the default of an argument that was not passed, where the
\* argument is an id or a time
sentinel == -1
\* crud.sentinel where the argument is a string
sentinel_str == "sentinel"

\* UserRole values stored in project_members.role by the crud layer
Roles == {"member", "helper"}

VARIABLES
    users,            \* users table: user_id -> row
    projects,         \* projects table: project_id -> row
    project_seq,      \* last value of the projects.project_id sequence
    project_members,  \* project_members table: <<project_id, user_id>> -> role
    invites,          \* invites table: invite_code -> row
    chats,            \* chats table: chat_id -> row
    tasks,            \* tasks table: task_id -> row
    task_seq,         \* last value of the tasks.task_id sequence
    now,              \* wall clock read by datetime.now
    sess,             \* concurrent sessions: position and locals of each call
    ret,              \* the last completed call and its outcome
    granted,          \* history: memberships created through each invite
    assigned          \* history: per project, the task_id_in_project values in creation order

vars == <<users, projects, project_seq, project_members, invites, chats, tasks,
          task_seq, now, sess, ret, granted, assigned>>

\* --------------------------------------------------------- storage faults
\* f = 0: no storage call of this call fails; f = k > 0: the k-th awaited
\* storage call from here raises SQLAlchemyError.
Faults(f) == f = 1
Pass(f) == IF f > 1 THEN f - 1 ELSE 0

DB ==
    [users |-> users, projects |-> projects, project_seq |-> project_seq,
     project_members |-> project_members, invites |-> invites,
     chats |-> chats, tasks |-> tasks, task_seq |-> task_seq]

R(res, f, db) == [res |-> res, f |-> f, db |-> db]

\* an outcome together with the number of session.commit() calls made
RC(res, f, db, commits) == [res |-> res, f |-> f, db |-> db, commits |-> commits]

\* f @@ g restricted to what is needed here: a function without one key
Without(fn, k) == [x \in (DOMAIN fn) \ {k} |-> fn[x]]
With(fn, k, v) == [x \in (DOMAIN fn) \cup {k} |-> IF x = k THEN v ELSE fn[x]]
EmptyFn == [x \in {} |-> NULL]

\* ------------------------------------------------------------------ users
UsernameTaken(db, user_id, username) ==
    /\ username # NoUsername
    /\ \E u \in DOMAIN db.users : u # user_id /\ db.users[u].username = username

create_user(db, f, user_id, username, first_name, is_bot) ==
    IF Faults(f) THEN R("DatabaseError", 0, db)
    ELSE IF user_id \in DOMAIN db.users \/ UsernameTaken(db, user_id, username)
    THEN R("UserAlreadyExistsError", Pass(f), db)
    ELSE LET db1 == [db EXCEPT !.users = With(db.users, user_id,
                        [username |-> username, first_name |-> first_name,
                         is_bot |-> is_bot])]
         IN IF Faults(Pass(f)) THEN R("DatabaseError", 0, db1)
            ELSE R("ok", Pass(Pass(f)), db1)

get_user_by_id(db, f, user_id) ==
    IF Faults(f) THEN R("DatabaseError", 0, db)
    ELSE IF user_id \notin DOMAIN db.users THEN R("UserNotFoundError", Pass(f), db)
    ELSE R("ok", Pass(f), db)

\* --------------------------------------------------------------- projects
\* the upsert with the outcome of its comparisons replaced: Write says
\* whether an existing row is committed again when nothing differs, Clear
\* whether a stored username is cleared when None is passed
upsert_user_with(Write, Clear, db, f, user_id, username, first_name, is_bot) ==
    LET r1 == get_user_by_id(db, f, user_id) IN
    IF r1.res = "UserNotFoundError"
    THEN LET r2 == create_user(db, r1.f, user_id, username, first_name, is_bot)
         IN RC(r2.res, r2.f, r2.db, 1)
    ELSE IF r1.res # "ok" THEN RC(r1.res, r1.f, db, 0)
    ELSE
    LET user == db.users[user_id]
        new_username == \/ username # NoUsername /\ user.username # username
                        \/ Clear /\ username = NoUsername /\ user.username # NoUsername
        user1 == [user EXCEPT !.username = IF new_username THEN username ELSE @,
                              !.first_name = first_name, !.is_bot = is_bot]
        db1 == [db EXCEPT !.users[user_id] = user1]
    IN
    IF ~Write /\ user1 = user THEN RC("ok", r1.f, db, 0)
    ELSE IF UsernameTaken(db, user_id, user1.username) THEN RC("DatabaseError", 0, db, 1)
    ELSE RC("ok", Pass(Pass(r1.f)), db1, 1)

upsert_user_always_committing(db, f, user_id, username, first_name, is_bot) ==
    upsert_user_with(TRUE, TRUE, db, f, user_id, username, first_name, is_bot)

upsert_user_keeping_username(db, f, user_id, username, first_name, is_bot) ==
    upsert_user_with(FALSE, FALSE, db, f, user_id, username, first_name, is_bot)

get_or_create_and_update_user(db, f, user_id, username, first_name, is_bot) ==
    LET r1 == get_user_by_id(db, f, user_id) IN
    IF r1.res = "UserNotFoundError"
    THEN LET r2 == create_user(db, r1.f, user_id, username, first_name, is_bot)
         IN RC(r2.res, r2.f, r2.db, 1)
    ELSE IF r1.res # "ok" THEN RC(r1.res, r1.f, db, 0)
    ELSE
    LET user == db.users[user_id]
        new_username == \/ username # NoUsername /\ user.username # username
                        \/ username = NoUsername /\ user.username # NoUsername
        new_first_name == user.first_name # first_name
        new_is_bot == user.is_bot # is_bot
        needs_update == new_username \/ new_first_name \/ new_is_bot
        user1 == [user EXCEPT !.username = IF new_username THEN username ELSE @,
                              !.first_name = IF new_first_name THEN first_name ELSE @,
                              !.is_bot = IF new_is_bot THEN is_bot ELSE @]
        db1 == [db EXCEPT !.users[user_id] = user1]
    IN
    IF ~needs_update THEN RC("ok", r1.f, db, 0)
    \* the commit: a username held by another row is an IntegrityError
    ELSE IF Faults(r1.f) \/ UsernameTaken(db, user_id, user1.username)
    THEN RC("DatabaseError", 0, db, 1)
    ELSE IF Faults(Pass(r1.f)) THEN RC("DatabaseError", 0, db1, 1)
    ELSE RC("ok", Pass(Pass(r1.f)), db1, 1)

\* projects.name without unique=True
NameNeverTaken(db, project_id, name) == FALSE

\* unique=True on projects.name: another row holds the name
NameTaken(db, project_id, name) ==
    \E p \in DOMAIN db.projects : p # project_id /\ db.projects[p].name = name

\* description keeps its default None
create_project(db, f, owner_user_id, name) ==
    LET r1 == get_user_by_id(db, f, owner_user_id) IN
    IF r1.res # "ok" THEN r1
    ELSE IF Faults(r1.f) THEN R("DatabaseError", 0, db)
    ELSE IF NameTaken(db, NULL, name) THEN R("ProjectNameConflictError", Pass(r1.f), db)
    ELSE LET id == db.project_seq + 1
             db1 == [db EXCEPT !.project_seq = id,
                               !.projects = With(db.projects, id,
                                   [name |-> name, owner_user_id |-> owner_user_id,
                                    description |-> None])]
         IN IF Faults(Pass(r1.f)) THEN R("DatabaseError", 0, db1)
            ELSE R("ok", Pass(Pass(r1.f)), db1)

get_project_by_id(db, f, project_id) ==
    IF Faults(f) THEN R("DatabaseError", 0, db)
    ELSE IF project_id \notin DOMAIN db.projects THEN R("ProjectNotFoundError", Pass(f), db)
    ELSE R("ok", Pass(f), db)

\* ------------------------------------------------------------ memberships
\* update_project that takes None, like the sentinel, for "not passed"
update_project_none_as_unset(db, f, project_id, name, description) ==
    LET r1 == get_project_by_id(db, f, project_id) IN
    IF r1.res # "ok" THEN RC(r1.res, r1.f, db, 0)
    ELSE
    LET db_project == db.projects[project_id]
        new_name == name \notin {sentinel_str, None} /\ db_project.name # name
        new_description == description \notin {sentinel_str, None}
                           /\ db_project.description # description
        db1 == [db EXCEPT !.projects[project_id] =
                   [db_project EXCEPT !.name = IF new_name THEN name ELSE @,
                                      !.description = IF new_description THEN description
                                                      ELSE @]]
    IN
    IF ~(new_name \/ new_description) THEN RC("ok", r1.f, db, 0)
    ELSE IF new_name /\ NameTaken(db, project_id, name)
    THEN RC("ProjectNameConflictError", 0, db, 1)
    ELSE RC("ok", Pass(Pass(r1.f)), db1, 1)

\* update_project whose failed commit keeps the new description
update_project_keeping_description(db, f, project_id, name, description) ==
    LET r1 == get_project_by_id(db, f, project_id) IN
    IF r1.res # "ok" THEN RC(r1.res, r1.f, db, 0)
    ELSE
    LET db_project == db.projects[project_id]
        new_name == name # sentinel_str /\ db_project.name # name
        new_description == description # sentinel_str /\ db_project.description # description
        needs_update == new_name \/ new_description
        db1 == [db EXCEPT !.projects[project_id] =
                   [db_project EXCEPT !.name = IF new_name THEN name ELSE @,
                                      !.description = IF new_description THEN description
                                                      ELSE @]]
        db2 == [db EXCEPT !.projects[project_id].description =
                   IF new_description THEN description ELSE @]
    IN
    IF ~needs_update THEN RC("ok", r1.f, db, 0)
    ELSE IF Faults(r1.f) THEN RC("DatabaseError", 0, db, 1)
    ELSE IF new_name /\ (name = None \/ NameTaken(db, project_id, name))
    THEN RC("ProjectNameConflictError", 0, db2, 1)
    ELSE IF Faults(Pass(r1.f)) THEN RC("DatabaseError", 0, db1, 1)
    ELSE RC("ok", Pass(Pass(r1.f)), db1, 1)

update_project(db, f, project_id, name, description) ==
    LET r1 == get_project_by_id(db, f, project_id) IN
    IF r1.res # "ok" THEN RC(r1.res, r1.f, db, 0)
    ELSE
    LET db_project == db.projects[project_id]
        new_name == name # sentinel_str /\ db_project.name # name
        new_description == description # sentinel_str /\ db_project.description # description
        needs_update == new_name \/ new_description
        db1 == [db EXCEPT !.projects[project_id] =
                   [db_project EXCEPT !.name = IF new_name THEN name ELSE @,
                                      !.description = IF new_description THEN description
                                                      ELSE @]]
    IN
    IF ~needs_update THEN RC("ok", r1.f, db, 0)
    ELSE IF Faults(r1.f) THEN RC("DatabaseError", 0, db, 1)
    \* the commit: name is NOT NULL and unique, both an IntegrityError
    ELSE IF new_name /\ (name = None \/ NameTaken(db, project_id, name))
    THEN RC("ProjectNameConflictError", 0, db, 1)
    ELSE IF Faults(Pass(r1.f)) THEN RC("DatabaseError", 0, db1, 1)
    ELSE RC("ok", Pass(Pass(r1.f)), db1, 1)

get_project_member(db, f, project_id, user_id) ==
    LET r1 == get_project_by_id(db, f, project_id) IN
    IF r1.res # "ok" THEN r1 ELSE
    LET r2 == get_user_by_id(db, r1.f, user_id) IN
    IF r2.res # "ok" THEN r2
    ELSE IF Faults(r2.f) THEN R("DatabaseError", 0, db)
    ELSE IF <<project_id, user_id>> \notin DOMAIN db.project_members
    THEN R("MemberNotFoundError", Pass(r2.f), db)
    ELSE R("ok", Pass(r2.f), db)

\* add_member_to_project without the test for an existing row of lines
\* 355-364: the new row replaces the stored one
add_member_without_existing_test(db, f, user_id, project_id, role) ==
    LET r1 == get_project_by_id(db, f, project_id) IN
    IF r1.res # "ok" THEN r1 ELSE
    LET r2 == get_user_by_id(db, r1.f, user_id) IN
    IF r2.res # "ok" THEN r2
    ELSE IF db.projects[project_id].owner_user_id = user_id
    THEN R("UserAlreadyProjectOwner", r2.f, db)
    ELSE R("ok", Pass(Pass(Pass(r2.f))),
           [db EXCEPT !.project_members =
               With(db.project_members, <<project_id, user_id>>, role)])

\* add_member_to_project without the owner test of lines 352-353
add_member_without_owner_test(db, f, user_id, project_id, role) ==
    LET r1 == get_project_by_id(db, f, project_id) IN
    IF r1.res # "ok" THEN r1 ELSE
    LET r2 == get_user_by_id(db, r1.f, user_id) IN
    IF r2.res # "ok" THEN r2
    ELSE IF <<project_id, user_id>> \in DOMAIN db.project_members
    THEN R("UserAlreadyMemberError", Pass(r2.f), db)
    ELSE R("ok", Pass(Pass(Pass(r2.f))),
           [db EXCEPT !.project_members =
               With(db.project_members, <<project_id, user_id>>, role)])

add_member_to_project(db, f, user_id, project_id, role) ==
    LET r1 == get_project_by_id(db, f, project_id) IN
    IF r1.res # "ok" THEN r1 ELSE
    LET r2 == get_user_by_id(db, r1.f, user_id) IN
    IF r2.res # "ok" THEN r2
    ELSE IF db.projects[project_id].owner_user_id = user_id
    THEN R("UserAlreadyProjectOwner", r2.f, db)
    ELSE IF Faults(r2.f) THEN R("DatabaseError", 0, db)
    ELSE IF <<project_id, user_id>> \in DOMAIN db.project_members
    THEN R("UserAlreadyMemberError", Pass(r2.f), db)
    ELSE IF Faults(Pass(r2.f)) THEN R("DatabaseError", 0, db)
    ELSE LET db1 == [db EXCEPT !.project_members =
                        With(db.project_members, <<project_id, user_id>>, role)]
             f1 == Pass(Pass(r2.f))
         IN IF Faults(f1) THEN R("DatabaseError", 0, db1)
            ELSE R("ok", Pass(f1), db1)

update_member_role(db, f, project_id, user_id, new_role) ==
    LET r1 == get_project_member(db, f, project_id, user_id) IN
    IF r1.res # "ok" THEN r1
    ELSE IF db.project_members[<<project_id, user_id>>] = new_role THEN R("ok", r1.f, db)
    ELSE IF Faults(r1.f) THEN R("DatabaseError", 0, db)
    ELSE LET db1 == [db EXCEPT !.project_members[<<project_id, user_id>>] = new_role]
         IN IF Faults(Pass(r1.f)) THEN R("DatabaseError", 0, db1)
            ELSE R("ok", Pass(Pass(r1.f)), db1)

remove_member_from_project(db, f, project_id, user_id) ==
    LET r1 == get_project_member(db, f, project_id, user_id) IN
    IF r1.res # "ok" THEN r1
    \* execute(delete ...) and commit: a fault at either rolls the delete back
    ELSE IF Faults(r1.f) \/ Faults(Pass(r1.f)) THEN R("DatabaseError", 0, db)
    ELSE R("ok", Pass(Pass(r1.f)),
           [db EXCEPT !.project_members = Without(db.project_members, <<project_id, user_id>>)])

\* transfer_project_ownership that keeps a membership row of the new owner
transfer_keeping_new_owner_row(db, f, project_id, new_owner_user_id) ==
    LET r1 == get_project_by_id(db, f, project_id) IN
    IF r1.res # "ok" THEN r1 ELSE
    LET r2 == get_user_by_id(db, r1.f, new_owner_user_id) IN
    IF r2.res # "ok" THEN r2 ELSE
    LET old_owner_user_id == db.projects[project_id].owner_user_id IN
    IF old_owner_user_id = new_owner_user_id THEN R("ok", r2.f, db)
    ELSE add_member_to_project(
            [db EXCEPT !.projects[project_id].owner_user_id = new_owner_user_id],
            Pass(Pass(r2.f)), old_owner_user_id, project_id, "member")

\* transfer_project_ownership without the test of lines 288-289
transfer_without_same_owner_test(db, f, project_id, new_owner_user_id) ==
    LET r1 == get_project_by_id(db, f, project_id) IN
    IF r1.res # "ok" THEN r1 ELSE
    LET r2 == get_user_by_id(db, r1.f, new_owner_user_id) IN
    IF r2.res # "ok" THEN r2 ELSE
    LET old_owner_user_id == db.projects[project_id].owner_user_id IN
    IF Faults(r2.f) THEN R("DatabaseError", 0, db)
    ELSE LET db1 == [db EXCEPT !.projects[project_id].owner_user_id = new_owner_user_id]
             f1 == Pass(r2.f)
         IN
         IF Faults(f1) THEN R("DatabaseError", 0, db1) ELSE
         LET r3 == remove_member_from_project(db1, Pass(f1), project_id, new_owner_user_id) IN
         IF r3.res \notin {"ok", "MemberNotFoundError"} THEN r3 ELSE
         add_member_to_project(r3.db, r3.f, old_owner_user_id, project_id, "member")

transfer_project_ownership(db, f, project_id, new_owner_user_id) ==
    LET r1 == get_project_by_id(db, f, project_id) IN
    IF r1.res # "ok" THEN r1 ELSE
    LET r2 == get_user_by_id(db, r1.f, new_owner_user_id) IN
    IF r2.res # "ok" THEN r2 ELSE
    LET old_owner_user_id == db.projects[project_id].owner_user_id IN
    IF old_owner_user_id = new_owner_user_id THEN R("ok", r2.f, db)
    \* first commit: the owner change alone
    ELSE IF Faults(r2.f) THEN R("DatabaseError", 0, db)
    ELSE LET db1 == [db EXCEPT !.projects[project_id].owner_user_id = new_owner_user_id]
             f1 == Pass(r2.f)
         IN
         IF Faults(f1) THEN R("DatabaseError", 0, db1) ELSE
         LET r3 == remove_member_from_project(db1, Pass(f1), project_id, new_owner_user_id) IN
         IF r3.res \notin {"ok", "MemberNotFoundError"} THEN r3 ELSE
         add_member_to_project(r3.db, r3.f, old_owner_user_id, project_id, "member")

\* ---------------------------------------------------------------- invites
get_invite_by_code(db, f, invite_code) ==
    IF Faults(f) THEN R("DatabaseError", 0, db)
    ELSE IF invite_code \notin DOMAIN db.invites THEN R("InviteNotFoundError", Pass(f), db)
    ELSE R("ok", Pass(f), db)

\* invites.invite_code without unique=True: a held code is stored again
create_invite_without_unique_code(db, f, project_id, generated_by_user_id, invite_code, max_uses, expires_at) ==
    LET r1 == get_project_by_id(db, f, project_id) IN
    IF r1.res # "ok" THEN r1 ELSE
    LET r2 == get_user_by_id(db, r1.f, generated_by_user_id) IN
    IF r2.res # "ok" THEN r2
    ELSE IF Faults(r2.f) THEN R("DatabaseError", 0, db)
    ELSE LET db1 == [db EXCEPT !.invites =
                        [c \in DOMAIN db.invites \cup {invite_code} |->
                            IF c = invite_code
                            THEN [project_id |-> project_id, max_uses |-> max_uses,
                                  current_uses |-> 0, expires_at |-> expires_at]
                            ELSE db.invites[c]]]
         IN IF Faults(Pass(r2.f)) THEN R("DatabaseError", 0, db1)
            ELSE R("ok", Pass(Pass(r2.f)), db1)

create_invite(db, f, project_id, generated_by_user_id, invite_code, max_uses, expires_at) ==
    LET r1 == get_project_by_id(db, f, project_id) IN
    IF r1.res # "ok" THEN r1 ELSE
    LET r2 == get_user_by_id(db, r1.f, generated_by_user_id) IN
    IF r2.res # "ok" THEN r2
    ELSE IF Faults(r2.f) THEN R("DatabaseError", 0, db)
    ELSE IF invite_code \in DOMAIN db.invites
    THEN R("InviteCodeConflictError", Pass(r2.f), db)
    ELSE LET db1 == [db EXCEPT !.invites = With(db.invites, invite_code,
                        [project_id |-> project_id, max_uses |-> max_uses,
                         current_uses |-> 0, expires_at |-> expires_at])]
         IN IF Faults(Pass(r2.f)) THEN R("DatabaseError", 0, db1)
            ELSE R("ok", Pass(Pass(r2.f)), db1)

\* increment_invite_uses that raises at the limit before committing the
\* counter (lines 889-890 left out)
increment_raising_before_commit(db, f, invite_code) ==
    LET r1 == get_invite_by_code(db, f, invite_code) IN
    IF r1.res # "ok" THEN r1 ELSE
    LET invite == db.invites[invite_code]
        current_uses == invite.current_uses + 1
        db1 == [db EXCEPT !.invites[invite_code].current_uses = current_uses]
    IN
    IF invite.max_uses # NULL /\ current_uses >= invite.max_uses
    THEN R("InviteMaxUsesReachedError", r1.f, db)
    ELSE R("ok", Pass(Pass(r1.f)), db1)

\* The limit is tested after the increment: the call that reaches max_uses
\* commits the new counter and then raises (lines 886-891); its commit and
\* refresh are outside any try, so a fault there leaves the function raw.
increment_invite_uses(db, f, invite_code) ==
    LET r1 == get_invite_by_code(db, f, invite_code) IN
    IF r1.res # "ok" THEN r1 ELSE
    LET invite == db.invites[invite_code]
        current_uses == invite.current_uses + 1
        db1 == [db EXCEPT !.invites[invite_code].current_uses = current_uses]
    IN
    IF invite.max_uses # NULL /\ current_uses >= invite.max_uses
    THEN IF Faults(r1.f) THEN R("SQLAlchemyError", 0, db)
         ELSE IF Faults(Pass(r1.f)) THEN R("SQLAlchemyError", 0, db1)
         ELSE R("InviteMaxUsesReachedError", Pass(Pass(r1.f)), db1)
    ELSE IF Faults(r1.f) THEN R("DatabaseError", 0, db)
         ELSE IF Faults(Pass(r1.f)) THEN R("DatabaseError", 0, db1)
         ELSE R("ok", Pass(Pass(r1.f)), db1)

delete_invite_by_code(db, f, invite_code) ==
    LET r1 == get_invite_by_code(db, f, invite_code) IN
    IF r1.res # "ok" THEN r1
    \* session.delete and commit
    ELSE IF Faults(r1.f) \/ Faults(Pass(r1.f)) THEN R("DatabaseError", 0, db)
    ELSE R("ok", Pass(Pass(r1.f)), [db EXCEPT !.invites = Without(db.invites, invite_code)])

\* handle_invite_acceptance without the pre-checks of lines 1013-1017:
\* Checks says which of "expiry" and "limit" are still made
acceptance_with_checks(Checks, db, f, t, accepting_user_id, invite_code) ==
    LET r1 == get_invite_by_code(db, f, invite_code) IN
    IF r1.res # "ok" THEN r1 ELSE
    LET invite == db.invites[invite_code] IN
    IF "expiry" \in Checks /\ invite.expires_at # NULL /\ invite.expires_at < t
    THEN R("InviteExpiredError", r1.f, db)
    ELSE IF "limit" \in Checks /\ invite.max_uses # NULL
            /\ invite.current_uses >= invite.max_uses
    THEN R("InviteMaxUsesReachedError", r1.f, db)
    ELSE
    LET r2 == get_user_by_id(db, r1.f, accepting_user_id) IN
    IF r2.res # "ok" THEN r2 ELSE
    LET r3 == get_project_member(db, r2.f, invite.project_id, accepting_user_id) IN
    IF r3.res = "ok" THEN R("UserAlreadyMemberError", r3.f, db)
    ELSE IF r3.res # "MemberNotFoundError" THEN r3 ELSE
    LET r4 == add_member_to_project(db, r3.f, accepting_user_id, invite.project_id, "member") IN
    IF r4.res # "ok" THEN r4 ELSE increment_invite_uses(r4.db, r4.f, invite_code)

acceptance_without_limit_check(db, f, t, accepting_user_id, invite_code) ==
    acceptance_with_checks({"expiry"}, db, f, t, accepting_user_id, invite_code)

acceptance_without_expiry_check(db, f, t, accepting_user_id, invite_code) ==
    acceptance_with_checks({"limit"}, db, f, t, accepting_user_id, invite_code)

handle_invite_acceptance(db, f, t, accepting_user_id, invite_code) ==
    LET r1 == get_invite_by_code(db, f, invite_code) IN
    IF r1.res # "ok" THEN r1 ELSE
    LET invite == db.invites[invite_code] IN
    IF invite.expires_at # NULL /\ invite.expires_at < t
    THEN R("InviteExpiredError", r1.f, db)
    ELSE IF invite.max_uses # NULL /\ invite.current_uses >= invite.max_uses
    THEN R("InviteMaxUsesReachedError", r1.f, db)
    ELSE
    LET r2 == get_user_by_id(db, r1.f, accepting_user_id) IN
    IF r2.res # "ok" THEN r2 ELSE
    LET r3 == get_project_member(db, r2.f, invite.project_id, accepting_user_id) IN
    IF r3.res = "ok" THEN R("UserAlreadyMemberError", r3.f, db)
    ELSE IF r3.res # "MemberNotFoundError" THEN r3 ELSE
    LET r4 == add_member_to_project(db, r3.f, accepting_user_id, invite.project_id, "member") IN
    IF r4.res # "ok" THEN r4 ELSE
    LET r5 == increment_invite_uses(r4.db, r4.f, invite_code) IN
    IF r5.res # "ok" THEN r5 ELSE
    LET updated_invite == r5.db.invites[invite_code]
        invite_exhausted == updated_invite.max_uses # NULL
                            /\ updated_invite.current_uses >= updated_invite.max_uses
    IN IF invite_exhausted THEN delete_invite_by_code(r5.db, r5.f, invite_code)
       ELSE r5

\* ------------------------------------------------------------------ tasks
TaskStatus == {"new", "in_progress", "review", "completed", "cancelled"}

ProjectTaskNumbers(db, project_id) ==
    {db.tasks[t].task_id_in_project :
        t \in {x \in DOMAIN db.tasks : db.tasks[x].project_id = project_id}}

Max(S) == CHOOSE m \in S : \A x \in S : x <= m

\* the max query without its where clause: the maximum over all projects
NextNumberOfAnyProject(db, project_id) ==
    LET S == {db.tasks[t].task_id_in_project : t \in DOMAIN db.tasks}
        max_id == IF S = {} THEN NULL ELSE Max(S)
    IN max_id + 1

\* _get_next_task_id_in_project:
\* select max(task_id_in_project) where project_id = ...; (max_id or 0) + 1
NextNumber(db, project_id) ==
    LET S == ProjectTaskNumbers(db, project_id)
        max_id == IF S = {} THEN NULL ELSE Max(S)
    IN max_id + 1

get_next_task_id_in_project(db, f, project_id) ==
    LET r1 == get_project_by_id(db, f, project_id) IN
    IF r1.res # "ok" THEN r1
    ELSE IF Faults(r1.f) THEN R("DatabaseError", 0, db)
    ELSE R("ok", Pass(r1.f), db)

get_chat_by_chat_id(db, f, chat_id) ==
    IF Faults(f) THEN R("DatabaseError", 0, db)
    ELSE IF chat_id \notin DOMAIN db.chats THEN R("ChatNotFoundError", Pass(f), db)
    ELSE R("ok", Pass(f), db)

\* tasks without UniqueConstraint('project_id', 'task_id_in_project')
NumberNeverTaken(db, project_id, n) == FALSE

NumberTaken(db, project_id, n) == n \in ProjectTaskNumbers(db, project_id)

\* create_task without the status validation of lines 525-527
create_task_without_status_check(db, f, project_id, creator_user_id, title, description, chat_id_created_in, assignee_user_id, status, due_date) ==
    LET r1 == get_project_by_id(db, f, project_id) IN
    IF r1.res # "ok" THEN r1 ELSE
    LET r2 == get_user_by_id(db, r1.f, creator_user_id) IN
    IF r2.res # "ok" THEN r2 ELSE
    LET r3 == get_chat_by_chat_id(db, r2.f, chat_id_created_in) IN
    IF r3.res # "ok" THEN r3 ELSE
    LET r4 == IF assignee_user_id # NULL THEN get_user_by_id(db, r3.f, assignee_user_id)
              ELSE r3 IN
    IF r4.res # "ok" THEN r4 ELSE
    LET id == db.task_seq + 1
    IN R("ok", Pass(Pass(Pass(r4.f))),
         [db EXCEPT !.task_seq = id,
                    !.tasks = With(db.tasks, id,
                        [project_id |-> project_id,
                         task_id_in_project |-> NextNumber(db, project_id),
                         title |-> title, description |-> description,
                         status |-> status,
                         creator_user_id |-> creator_user_id,
                         assignee_user_id |-> assignee_user_id,
                         chat_id_created_in |-> chat_id_created_in,
                         completed_at |-> NULL, due_date |-> due_date])])

create_task(db, f, project_id, creator_user_id, title, description, chat_id_created_in, assignee_user_id, status, due_date) ==
    LET r1 == get_project_by_id(db, f, project_id) IN
    IF r1.res # "ok" THEN r1 ELSE
    LET r2 == get_user_by_id(db, r1.f, creator_user_id) IN
    IF r2.res # "ok" THEN r2 ELSE
    LET r3 == get_chat_by_chat_id(db, r2.f, chat_id_created_in) IN
    IF r3.res # "ok" THEN r3 ELSE
    LET r4 == IF assignee_user_id # NULL THEN get_user_by_id(db, r3.f, assignee_user_id)
              ELSE r3 IN
    IF r4.res # "ok" THEN r4
    ELSE IF status \notin TaskStatus THEN R("InvalidTaskStatusError", r4.f, db) ELSE
    LET r5 == get_next_task_id_in_project(db, r4.f, project_id) IN
    IF r5.res # "ok" THEN r5 ELSE
    LET next_task_id_in_project == NextNumber(db, project_id) IN
    IF Faults(r5.f) \/ NumberTaken(db, project_id, next_task_id_in_project)
    THEN R("DatabaseError", 0, db)
    ELSE LET id == db.task_seq + 1
             db1 == [db EXCEPT !.task_seq = id,
                               !.tasks = With(db.tasks, id,
                                   [project_id |-> project_id,
                                    task_id_in_project |-> next_task_id_in_project,
                                    title |-> title, description |-> description,
                                    status |-> status,
                                    creator_user_id |-> creator_user_id,
                                    assignee_user_id |-> assignee_user_id,
                                    chat_id_created_in |-> chat_id_created_in,
                                    completed_at |-> NULL, due_date |-> due_date])]
         IN IF Faults(Pass(r5.f)) THEN R("DatabaseError", 0, db1)
            ELSE R("ok", Pass(Pass(r5.f)), db1)

\* update_task that stamps completed_at from the status asked for alone,
\* without comparing with the status stored before (line 744 left out)
update_task_stamping_always(db, f, t, task_id, title, description, status, assignee_user_id, due_date) ==
    IF task_id \notin DOMAIN db.tasks THEN RC("TaskNotFoundError", Pass(f), db, 0)
    ELSE LET task == db.tasks[task_id]
             s1 == IF status # None THEN status ELSE task.status
             row == [task EXCEPT
                        !.title = IF title # None THEN title ELSE @,
                        !.description = IF description # None THEN description ELSE @,
                        !.status = s1,
                        !.assignee_user_id =
                            IF assignee_user_id # sentinel THEN assignee_user_id ELSE @,
                        !.due_date = IF due_date # sentinel THEN due_date ELSE @,
                        !.completed_at = IF s1 = "completed" THEN t ELSE NULL]
         IN IF status # None /\ status \notin TaskStatus
            THEN RC("InvalidTaskStatusError", Pass(f), db, 0)
            ELSE IF assignee_user_id \notin {sentinel, NULL}
                    /\ assignee_user_id \notin DOMAIN db.users
            THEN RC("UserNotFoundError", Pass(f), db, 0)
            ELSE IF row = task THEN RC("ok", Pass(f), db, 0)
            ELSE RC("ok", Pass(f), [db EXCEPT !.tasks[task_id] = row], 1)

\* update_task that takes None, like the sentinel, for "not passed" in
\* assignee_user_id and due_date
update_task_none_as_unset(db, f, t, task_id, title, description, status, assignee_user_id, due_date) ==
    IF task_id \notin DOMAIN db.tasks THEN RC("TaskNotFoundError", Pass(f), db, 0)
    ELSE LET task == db.tasks[task_id]
             s1 == IF status # None THEN status ELSE task.status
             row == [task EXCEPT
                        !.title = IF title # None THEN title ELSE @,
                        !.description = IF description # None THEN description ELSE @,
                        !.status = s1,
                        !.assignee_user_id =
                            IF assignee_user_id \notin {sentinel, NULL}
                            THEN assignee_user_id ELSE @,
                        !.due_date = IF due_date \notin {sentinel, NULL} THEN due_date ELSE @,
                        !.completed_at =
                            IF s1 = "completed" /\ task.status # "completed" THEN t
                            ELSE IF s1 # "completed" /\ task.status = "completed" THEN NULL
                            ELSE @]
         IN IF status # None /\ status \notin TaskStatus
            THEN RC("InvalidTaskStatusError", Pass(f), db, 0)
            ELSE IF assignee_user_id \notin {sentinel, NULL}
                    /\ assignee_user_id \notin DOMAIN db.users
            THEN RC("UserNotFoundError", Pass(f), db, 0)
            ELSE IF row = task THEN RC("ok", Pass(f), db, 0)
            ELSE RC("ok", Pass(f), [db EXCEPT !.tasks[task_id] = row], 1)

\* update_task that stores any status passed to it (lines 719-722 left out)
update_task_without_status_check(db, f, t, task_id, title, description, status, assignee_user_id, due_date) ==
    IF Faults(f) THEN RC("DatabaseError", 0, db, 0)
    ELSE IF task_id \notin DOMAIN db.tasks THEN RC("TaskNotFoundError", Pass(f), db, 0)
    ELSE
    LET task == db.tasks[task_id]
        s1 == IF status # None THEN status ELSE task.status
        row == [task EXCEPT
                   !.title = IF title # None THEN title ELSE @,
                   !.description = IF description # None THEN description ELSE @,
                   !.status = s1,
                   !.assignee_user_id =
                       IF assignee_user_id # sentinel THEN assignee_user_id ELSE @,
                   !.due_date = IF due_date # sentinel THEN due_date ELSE @,
                   !.completed_at =
                       IF s1 = "completed" /\ task.status # "completed" THEN t
                       ELSE IF s1 # "completed" /\ task.status = "completed" THEN NULL
                       ELSE @]
    IN IF assignee_user_id \notin {sentinel, NULL} /\ assignee_user_id \notin DOMAIN db.users
       THEN RC("UserNotFoundError", Pass(f), db, 0)
       ELSE IF row = task THEN RC("ok", Pass(f), db, 0)
       ELSE RC("ok", Pass(f), [db EXCEPT !.tasks[task_id] = row], 1)

\* t is the time func.now() yields at the commit
update_task(db, f, t, task_id, title, description, status, assignee_user_id, due_date) ==
    IF Faults(f) THEN RC("DatabaseError", 0, db, 0)
    ELSE IF task_id \notin DOMAIN db.tasks THEN RC("TaskNotFoundError", Pass(f), db, 0)
    ELSE
    LET task == db.tasks[task_id]
        previous_status == task.status
        new_title == title # None /\ task.title # title
        new_description == description # None /\ task.description # description
        new_status == status # None /\ task.status # status
        new_assignee == assignee_user_id # sentinel /\ task.assignee_user_id # assignee_user_id
        new_due_date == due_date # sentinel /\ task.due_date # due_date
    IN
    IF new_status /\ status \notin TaskStatus
    THEN RC("InvalidTaskStatusError", Pass(f), db, 0)
    ELSE
    LET r1 == IF new_assignee /\ assignee_user_id # NULL
              THEN get_user_by_id(db, Pass(f), assignee_user_id)
              ELSE R("ok", Pass(f), db)
    IN
    IF r1.res # "ok" THEN RC(r1.res, r1.f, db, 0)
    ELSE
    LET task1 == [task EXCEPT
                     !.title = IF new_title THEN title ELSE @,
                     !.description = IF new_description THEN description ELSE @,
                     !.status = IF new_status THEN status ELSE @,
                     !.assignee_user_id = IF new_assignee THEN assignee_user_id ELSE @,
                     !.due_date = IF new_due_date THEN due_date ELSE @]
        is_now_completed == task1.status = "completed"
        was_before_completed == previous_status = "completed"
        task2 == IF is_now_completed /\ ~was_before_completed
                 THEN [task1 EXCEPT !.completed_at = t]
                 ELSE IF ~is_now_completed /\ was_before_completed
                 THEN [task1 EXCEPT !.completed_at = NULL]
                 ELSE task1
        updated == \/ new_title \/ new_description \/ new_status \/ new_assignee
                   \/ new_due_date
                   \/ is_now_completed # was_before_completed
        db1 == [db EXCEPT !.tasks[task_id] = task2]
    IN
    IF ~updated THEN RC("ok", r1.f, db, 0)
    ELSE IF Faults(r1.f) THEN RC("DatabaseError", 0, db, 1)
    ELSE IF Faults(Pass(r1.f)) THEN RC("DatabaseError", 0, db1, 1)
    ELSE RC("ok", Pass(Pass(r1.f)), db1, 1)

delete_task(db, f, task_id) ==
    IF Faults(f) THEN R("DatabaseError", 0, db)
    ELSE IF task_id \notin DOMAIN db.tasks THEN R("TaskNotFoundError", Pass(f), db)
    \* session.delete and commit
    ELSE IF Faults(Pass(f)) \/ Faults(Pass(Pass(f))) THEN R("DatabaseError", 0, db)
    ELSE R("ok", Pass(Pass(Pass(f))), [db EXCEPT !.tasks = Without(db.tasks, task_id)])

\* ------------------------------------------------------ projects of a user
\* lines 1245-1256: the loop over rows (project_id, role) that appends a row
\* unless its project was processed before
RECURSIVE append_unprocessed(_, _)
append_unprocessed(projects_with_roles, rows) ==
    IF rows = {} THEN projects_with_roles
    ELSE LET row == CHOOSE x \in rows : TRUE
             processed_project_ids ==
                 {projects_with_roles[i][1] : i \in 1..Len(projects_with_roles)}
         IN append_unprocessed(
                IF row[1] \notin processed_project_ids
                THEN Append(projects_with_roles, row) ELSE projects_with_roles,
                rows \ {row})

\* the list returned: the memberships of the user first, then the projects
\* the user owns with role 'owner'
projects_with_roles_of(db, user_id) ==
    LET memberships == {<<k[1], db.project_members[k]>> :
                           k \in {x \in DOMAIN db.project_members : x[2] = user_id}}
        owned_projects == {<<p, "owner">> :
                              p \in {x \in DOMAIN db.projects :
                                        db.projects[x].owner_user_id = user_id}}
    IN append_unprocessed(append_unprocessed(<<>>, memberships), owned_projects)

get_user_projects_with_roles(db, f, user_id) ==
    IF Faults(f) \/ Faults(Pass(f)) THEN R("DatabaseError", 0, db)
    ELSE R("ok", Pass(Pass(f)), db)

\* ------------------------------------------------------ project deletion
\* delete_project that removes the project row alone, without the cascades
\* of models.py lines 97-119
delete_project_without_cascade(db, f, project_id) ==
    LET r1 == get_project_by_id(db, f, project_id) IN
    IF r1.res # "ok" THEN r1
    ELSE R("ok", Pass(Pass(r1.f)), [db EXCEPT !.projects = Without(db.projects, project_id)])

\* session.delete(project) cascades to the memberships, tasks and invites
\* of the project (cascade="all, delete-orphan")
delete_project(db, f, project_id) ==
    LET r1 == get_project_by_id(db, f, project_id) IN
    IF r1.res # "ok" THEN r1
    \* session.delete and commit
    ELSE IF Faults(r1.f) \/ Faults(Pass(r1.f)) THEN R("DatabaseError", 0, db)
    ELSE R("ok", Pass(Pass(r1.f)),
           [db EXCEPT
               !.projects = Without(db.projects, project_id),
               !.project_members =
                   [k \in {x \in DOMAIN db.project_members : x[1] # project_id}
                       |-> db.project_members[k]],
               !.tasks =
                   [t \in {x \in DOMAIN db.tasks : db.tasks[x].project_id # project_id}
                       |-> db.tasks[t]],
               !.invites =
                   [c \in {x \in DOMAIN db.invites : db.invites[x].project_id # project_id}
                       |-> db.invites[c]]])

\* ------------------------------------------------------------- chat links
\* The rows of project_chats are kept with the chat: chats[c].projects is
\* the set of projects the chat is linked to (Chat.projects).

\* add_chat_to_project without the test of lines 1058-1059
add_chat_without_linked_test(db, f, project_id, chat_id) ==
    LET r1 == get_project_by_id(db, f, project_id) IN
    IF r1.res # "ok" THEN r1 ELSE
    LET r2 == get_chat_by_chat_id(db, r1.f, chat_id) IN
    IF r2.res # "ok" THEN r2
    ELSE IF Faults(r2.f) THEN R("DatabaseError", 0, db)
    ELSE R("ok", Pass(r2.f),
           [db EXCEPT !.chats[chat_id].projects = @ \cup {project_id}])

add_chat_to_project(db, f, project_id, chat_id) ==
    LET r1 == get_project_by_id(db, f, project_id) IN
    IF r1.res # "ok" THEN r1 ELSE
    LET r2 == get_chat_by_chat_id(db, r1.f, chat_id) IN
    IF r2.res # "ok" THEN r2
    ELSE IF project_id \in db.chats[chat_id].projects
    THEN R("ChatAlreadyLinkedToProjectError", r2.f, db)
    ELSE IF Faults(r2.f) THEN R("DatabaseError", 0, db)
    ELSE R("ok", Pass(r2.f),
           [db EXCEPT !.chats[chat_id].projects = @ \cup {project_id}])

\* the chat is looked for among project.chats only: an unknown chat_id is
\* an unlinked one
remove_chat_from_project(db, f, project_id, chat_id) ==
    LET r1 == get_project_by_id(db, f, project_id) IN
    IF r1.res # "ok" THEN r1
    ELSE IF chat_id \notin DOMAIN db.chats \/ project_id \notin db.chats[chat_id].projects
    THEN R("ChatNotLinkedToProjectError", r1.f, db)
    ELSE IF Faults(r1.f) THEN R("DatabaseError", 0, db)
    ELSE R("ok", Pass(r1.f),
           [db EXCEPT !.chats[chat_id].projects = @ \ {project_id}])

\* ------------------------------------------------- task updates in a session
\* dirty holds the Task objects that were changed in the session and
\* neither committed nor rolled back; session.get yields the object the
\* session holds, and a commit writes every object it holds.
Flush(table, dirty) ==
    [x \in DOMAIN table |-> IF x \in DOMAIN dirty THEN dirty[x] ELSE table[x]]

Held(db, dirty, task_id, task) ==
    IF task = db.tasks[task_id] THEN Without(dirty, task_id) ELSE With(dirty, task_id, task)

SR(res, db, dirty, commits) == [res |-> res, db |-> db, dirty |-> dirty, commits |-> commits]

\* update_task on a session: the assignments of lines 710-716 and 723 are
\* made on the object before InvalidTaskStatusError (line 722) or
\* UserNotFoundError (line 732) is raised, and nothing takes them back
update_task_in_session(db, dirty, t, task_id, title, description, status, assignee_user_id, due_date) ==
    IF task_id \notin DOMAIN db.tasks THEN SR("TaskNotFoundError", db, dirty, 0)
    ELSE
    LET task == IF task_id \in DOMAIN dirty THEN dirty[task_id] ELSE db.tasks[task_id]
        previous_status == task.status
        new_title == title # None /\ task.title # title
        new_description == description # None /\ task.description # description
        task1 == [task EXCEPT !.title = IF new_title THEN title ELSE @,
                              !.description = IF new_description THEN description ELSE @]
        new_status == status # None /\ task.status # status
    IN
    IF new_status /\ status \notin TaskStatus
    THEN SR("InvalidTaskStatusError", db, Held(db, dirty, task_id, task1), 0)
    ELSE
    LET task2 == [task1 EXCEPT !.status = IF new_status THEN status ELSE @]
        new_assignee == assignee_user_id # sentinel /\ task.assignee_user_id # assignee_user_id
    IN
    IF new_assignee /\ assignee_user_id # NULL /\ assignee_user_id \notin DOMAIN db.users
    THEN SR("UserNotFoundError", db, Held(db, dirty, task_id, task2), 0)
    ELSE
    LET new_due_date == due_date # sentinel /\ task.due_date # due_date
        task3 == [task2 EXCEPT
                     !.assignee_user_id = IF new_assignee THEN assignee_user_id ELSE @,
                     !.due_date = IF new_due_date THEN due_date ELSE @]
        is_now_completed == task3.status = "completed"
        was_before_completed == previous_status = "completed"
        task4 == IF is_now_completed /\ ~was_before_completed
                 THEN [task3 EXCEPT !.completed_at = t]
                 ELSE IF ~is_now_completed /\ was_before_completed
                 THEN [task3 EXCEPT !.completed_at = NULL]
                 ELSE task3
        updated == \/ new_title \/ new_description \/ new_status \/ new_assignee
                   \/ new_due_date
                   \/ is_now_completed # was_before_completed
    IN
    IF ~updated THEN SR("ok", db, dirty, 0)
    ELSE SR("ok", [db EXCEPT !.tasks = Flush(db.tasks, With(dirty, task_id, task4))],
            EmptyFn, 1)

\* ================================================================ actions
Store(db) ==
    /\ users' = db.users
    /\ projects' = db.projects
    /\ project_seq' = db.project_seq
    /\ project_members' = db.project_members
    /\ invites' = db.invites
    /\ chats' = db.chats
    /\ tasks' = db.tasks
    /\ task_seq' = db.task_seq

Ret(op, res, project_id, user_id, invite_code, value) ==
    [op |-> op, res |-> res, project_id |-> project_id, user_id |-> user_id,
     invite_code |-> invite_code, value |-> value]

Idle == [s \in SessionIds |-> [pc |-> "idle", owner_user_id |-> NULL, name |-> "", res |-> ""]]


Init ==
    /\ users = EmptyFn
    /\ projects = EmptyFn
    /\ project_seq = 0
    /\ project_members = EmptyFn
    /\ invites = EmptyFn
    /\ chats = EmptyFn
    /\ tasks = EmptyFn
    /\ task_seq = 0
    /\ now = 1
    /\ sess = Idle
    /\ ret = Ret("none", "ok", NULL, NULL, "", 0)
    /\ granted = [c \in InviteCodes |-> 0]
    /\ assigned = [p \in ProjectIds |-> <<>>]

\* F is the set of fault positions the caller of the action may meet:
\* {0} for runs without storage faults.  Limits and Expiry are the max_uses
\* and expires_at arguments a specification passes to create_invite (its
\* defaults are max_uses = 1 and expires_at = None).  ret names the call
\* and its outcome; the arguments are kept for the calls whose results the
\* properties below inspect.
CreateUser(F) ==
    \E f \in F, u \in UserIds :
        \E r \in {create_user(DB, f, u, NoUsername, "name", FALSE)} :
        /\ Store(r.db)
        /\ ret' = Ret("create_user", r.res, NULL, NULL, "", 0)
        /\ UNCHANGED <<now, sess, granted, assigned>>

\* ret.value keeps the arguments, the number of commits, the row returned
\* (absent: "none") and the username stored when the call started
DoUpsertUser(f, u, username, first_name, is_bot) ==
    \E r \in {get_or_create_and_update_user(DB, f, u, username, first_name, is_bot)} :
       /\ Store(r.db)
       /\ ret' = Ret("get_or_create_and_update_user", r.res, NULL, u, "",
                     [username |-> username, first_name |-> first_name,
                      is_bot |-> is_bot, commits |-> r.commits,
                      returned |-> IF r.res = "ok" THEN <<r.db.users[u]>> ELSE <<>>,
                      existed |-> u \in DOMAIN users,
                      previous_username |-> IF u \in DOMAIN users THEN users[u].username
                                            ELSE NoUsername])
       /\ UNCHANGED <<now, sess, granted, assigned>>

UpsertUser(F, UserSet, Usernames, FirstNames, Bots) ==
    \E f \in F, u \in UserSet, username \in Usernames, first_name \in FirstNames,
       is_bot \in Bots : DoUpsertUser(f, u, username, first_name, is_bot)

DoCreateProject(f, u, name) ==
    /\ project_seq < MaxProjects
    /\ \E r \in {create_project(DB, f, u, name)} :
        /\ Store(r.db)
        /\ ret' = Ret("create_project", r.res, NULL, NULL, "", 0)
    /\ UNCHANGED <<now, sess, granted, assigned>>

CreateProject(F) ==
    \E f \in F, u \in UserIds, name \in ProjectNames : DoCreateProject(f, u, name)

\* ret.value keeps the arguments, the number of commits and the
\* description stored when the call started
DoUpdateProject(f, p, name, description) ==
    \E r \in {update_project(DB, f, p, name, description)} :
       /\ Store(r.db)
       /\ ret' = Ret("update_project", r.res, p, NULL, "",
                     [name |-> name, description |-> description, commits |-> r.commits,
                      previous_description |-> IF p \in DOMAIN projects
                                               THEN projects[p].description ELSE None])
       /\ UNCHANGED <<now, sess, granted, assigned>>

UpdateProject(F, ProjectSet, Names, Descriptions) ==
    \E f \in F, p \in ProjectSet, name \in Names, description \in Descriptions :
        DoUpdateProject(f, p, name, description)

\* ret.value is the number of membership, task and invite rows of the
\* project stored when the call started
DeleteProject(F) ==
    \E f \in F, p \in ProjectIds :
        \E r \in {delete_project(DB, f, p)} :
        /\ Store(r.db)
        /\ ret' = Ret("delete_project", r.res, p, NULL, "",
                      Cardinality({k \in DOMAIN project_members : k[1] = p})
                      + Cardinality({t \in DOMAIN tasks : tasks[t].project_id = p})
                      + Cardinality({c \in DOMAIN invites : invites[c].project_id = p}))
        /\ UNCHANGED <<now, sess, granted, assigned>>

DoAddMember(f, p, u, role) ==
    \E r \in {add_member_to_project(DB, f, u, p, role)} :
        /\ Store(r.db)
        /\ ret' = Ret("add_member_to_project", r.res, NULL, NULL, "", 0)
        /\ UNCHANGED <<now, sess, granted, assigned>>

AddMember(F, RoleSet) ==
    \E f \in F, p \in ProjectIds, u \in UserIds, role \in RoleSet : DoAddMember(f, p, u, role)

RemoveMember(F) ==
    \E f \in F, p \in ProjectIds, u \in UserIds :
        \E r \in {remove_member_from_project(DB, f, p, u)} :
        /\ Store(r.db)
        /\ ret' = Ret("remove_member_from_project", r.res, NULL, NULL, "", 0)
        /\ UNCHANGED <<now, sess, granted, assigned>>

UpdateMemberRole(F) ==
    \E f \in F, p \in ProjectIds, u \in UserIds, role \in Roles :
        \E r \in {update_member_role(DB, f, p, u, role)} :
        /\ Store(r.db)
        /\ ret' = Ret("update_member_role", r.res, NULL, NULL, "", 0)
        /\ UNCHANGED <<now, sess, granted, assigned>>

OwnerOf(p) == IF p \in DOMAIN projects THEN projects[p].owner_user_id ELSE NULL

\* ret.user_id is the new owner asked for, ret.value the owner stored when
\* the call started
Transfer(f, p, u) ==
    \E r \in {transfer_project_ownership(DB, f, p, u)} :
        /\ Store(r.db)
        /\ ret' = Ret("transfer_project_ownership", r.res, p, u, "", OwnerOf(p))
        /\ UNCHANGED <<now, sess, granted, assigned>>

TransferProjectOwnership(F) ==
    \E f \in F, p \in ProjectIds, u \in UserIds : Transfer(f, p, u)

CreateInvite(F, Limits, Expiry) ==
    \E f \in F, p \in ProjectIds, u \in UserIds, c \in InviteCodes,
       max_uses \in Limits, expires_at \in Expiry :
        \E r \in {create_invite(DB, f, p, u, c, max_uses, expires_at)} :
        /\ Store(r.db)
        /\ ret' = Ret("create_invite", r.res, NULL, NULL, "", 0)
        /\ granted' = IF c \in DOMAIN r.db.invites /\ c \notin DOMAIN invites
                      THEN [granted EXCEPT ![c] = 0] ELSE granted
        /\ UNCHANGED <<now, sess, assigned>>

\* create_invite with a code out of Codes; ret.value keeps max_uses
DoCreateInvite(f, p, u, c, max_uses) ==
    \E r \in {create_invite(DB, f, p, u, c, max_uses, NULL)} :
        /\ Store(r.db)
        /\ ret' = Ret("create_invite", r.res, p, u, c, max_uses)
        /\ UNCHANGED <<now, sess, granted, assigned>>

CreateInviteWithCode(F, Codes, MaxUsesSet) ==
    \E f \in F, p \in ProjectIds, u \in UserIds, c \in Codes, max_uses \in MaxUsesSet :
        DoCreateInvite(f, p, u, c, max_uses)

DeleteInvite(F) ==
    \E f \in F, c \in InviteCodes :
        \E r \in {delete_invite_by_code(DB, f, c)} :
        /\ Store(r.db)
        /\ ret' = Ret("delete_invite_by_code", r.res, NULL, NULL, "", 0)
        /\ UNCHANGED <<now, sess, granted, assigned>>

\* ret.value is the number of membership rows the call inserted; an invite
\* without max_uses is accepted while its counter is at most MaxUses, which
\* keeps the counter bounded.
Accept(f, u, c) ==
    /\ c \in DOMAIN invites => invites[c].current_uses <= MaxUses
    /\ \E r \in {handle_invite_acceptance(DB, f, now, u, c)} :
       LET created == Cardinality(DOMAIN r.db.project_members)
                      - Cardinality(DOMAIN project_members)
       IN
       /\ Store(r.db)
       /\ ret' = Ret("handle_invite_acceptance", r.res, NULL, u, c, created)
       /\ granted' = [granted EXCEPT ![c] = @ + created]
    /\ UNCHANGED <<now, sess, assigned>>

HandleInviteAcceptance(F, Acceptors) ==
    \E f \in F, u \in Acceptors, c \in InviteCodes : Accept(f, u, c)

\* a direct increment_invite_uses call, as the start handler makes it;
\* ret.value is current_uses before the call (-1 when the code is unknown)
IncrementInviteUses(F) ==
    \E f \in F, c \in InviteCodes :
        /\ c \in DOMAIN invites => invites[c].current_uses <= MaxUses
        /\ \E r \in {increment_invite_uses(DB, f, c)} :
           /\ Store(r.db)
           /\ ret' = Ret("increment_invite_uses", r.res, NULL, NULL, c,
                         IF c \in DOMAIN invites THEN invites[c].current_uses ELSE -1)
        /\ UNCHANGED <<now, sess, granted, assigned>>

\* ret.project_id is the project asked for, ret.value the task_id_in_project
\* of the task the call stored (0 when it stored none)
DoCreateTask(f, p, status) ==
    /\ task_seq < MaxTasks
    /\ \E r \in {create_task(DB, f, p, 1, "title", "text", 1, NULL, status, NULL)} :
       LET stored == r.db.task_seq # task_seq
           number == IF stored THEN r.db.tasks[r.db.task_seq].task_id_in_project ELSE 0
       IN
       /\ Store(r.db)
       /\ ret' = Ret("create_task", r.res, p, NULL, "", number)
       /\ assigned' = IF stored THEN [assigned EXCEPT ![p] = Append(@, number)]
                      ELSE assigned
    /\ UNCHANGED <<now, sess, granted>>

CreateTask(F, Statuses) ==
    \E f \in F, p \in ProjectIds, status \in Statuses : DoCreateTask(f, p, status)

\* create_task with every argument that its checks read; ret.value keeps
\* the arguments and the task_id_in_project stored (0 when none was)
CreateTaskWith(Limit, f, p, creator, chat, assignee, status) ==
    \E r \in {create_task(DB, f, p, creator, "title", "text", chat, assignee, status, NULL)} :
       LET stored == r.db.task_seq # task_seq
           number == IF stored THEN r.db.tasks[r.db.task_seq].task_id_in_project ELSE 0
       IN
       /\ r.db.task_seq <= Limit
       /\ Store(r.db)
       /\ ret' = Ret("create_task", r.res, p, creator, "",
                     [chat_id_created_in |-> chat, assignee_user_id |-> assignee,
                      status |-> status, number |-> number])
       /\ assigned' = IF stored THEN [assigned EXCEPT ![p] = Append(@, number)]
                      ELSE assigned
       /\ UNCHANGED <<now, sess, granted>>

\* ret.value keeps the arguments of the call and the number of commits made
DoUpdateTask(f, task_id, title, description, status, assignee, due_date) ==
    \E r \in {update_task(DB, f, now, task_id, title, description, status, assignee, due_date)} :
       /\ Store(r.db)
       /\ ret' = Ret("update_task", r.res, NULL, NULL, "",
                     [task_id |-> task_id, title |-> title, description |-> description,
                      status |-> status, assignee_user_id |-> assignee,
                      due_date |-> due_date, commits |-> r.commits])
       /\ UNCHANGED <<now, sess, granted, assigned>>

UpdateTask(F, TaskIdSet, Titles, Descriptions, Statuses, Assignees, DueDates) ==
    \E f \in F, task_id \in TaskIdSet, title \in Titles, description \in Descriptions,
       status \in Statuses, assignee \in Assignees, due_date \in DueDates :
        DoUpdateTask(f, task_id, title, description, status, assignee, due_date)

DeleteTask(F) ==
    \E f \in F, t \in 1..MaxTasks :
        \E r \in {delete_task(DB, f, t)} :
        /\ Store(r.db)
        /\ ret' = Ret("delete_task", r.res, NULL, NULL, "", t)
        /\ UNCHANGED <<now, sess, granted, assigned>>

\* ret.value is the list of <<project_id, role>> returned
GetUserProjectsWithRoles(F) ==
    \E f \in F, u \in UserIds :
        \E r \in {get_user_projects_with_roles(DB, f, u)} :
        /\ Store(r.db)
        /\ ret' = Ret("get_user_projects_with_roles", r.res, NULL, u, "",
                      IF r.res = "ok" THEN projects_with_roles_of(DB, u) ELSE <<>>)
        /\ UNCHANGED <<now, sess, granted, assigned>>

\* ret.value keeps the chat_id asked for and the chats before the call
DoAddChat(f, p, c) ==
    \E r \in {add_chat_to_project(DB, f, p, c)} :
        /\ Store(r.db)
        /\ ret' = Ret("add_chat_to_project", r.res, p, NULL, "",
                      [chat_id |-> c, before |-> chats])
        /\ UNCHANGED <<now, sess, granted, assigned>>

AddChatToProject(F, ProjectSet, ChatSet) ==
    \E f \in F, p \in ProjectSet, c \in ChatSet : DoAddChat(f, p, c)

DoRemoveChat(f, p, c) ==
    \E r \in {remove_chat_from_project(DB, f, p, c)} :
        /\ Store(r.db)
        /\ ret' = Ret("remove_chat_from_project", r.res, p, NULL, "",
                      [chat_id |-> c, before |-> chats])
        /\ UNCHANGED <<now, sess, granted, assigned>>

RemoveChatFromProject(F, ProjectSet, ChatSet) ==
    \E f \in F, p \in ProjectSet, c \in ChatSet : DoRemoveChat(f, p, c)

\* update_task through session s, which lives on after the call
DoUpdateTaskIn(s, task_id, title, description, status, assignee, due_date) ==
    \E r \in {update_task_in_session(DB, sess[s].dirty, now, task_id, title, description, status, assignee, due_date)} :
       /\ Store(r.db)
       /\ sess' = [sess EXCEPT ![s].dirty = r.dirty]
       /\ ret' = Ret("update_task", r.res, NULL, NULL, "",
                     [session |-> s, task_id |-> task_id, title |-> title,
                      description |-> description, status |-> status,
                      assignee_user_id |-> assignee, due_date |-> due_date,
                      commits |-> r.commits])
       /\ UNCHANGED <<now, granted, assigned>>

UpdateTaskIn(Sessions, TaskIdSet, Titles, Descriptions, Statuses, Assignees, DueDates) ==
    \E s \in Sessions, task_id \in TaskIdSet, title \in Titles,
       description \in Descriptions, status \in Statuses, assignee \in Assignees,
       due_date \in DueDates :
        DoUpdateTaskIn(s, task_id, title, description, status, assignee, due_date)

\* create_user with a username; ret.value keeps the username asked for
DoCreateUserNamed(f, u, username) ==
    \E r \in {create_user(DB, f, u, username, "name", FALSE)} :
       /\ Store(r.db)
       /\ ret' = Ret("create_user", r.res, NULL, u, "", [username |-> username])
       /\ UNCHANGED <<now, sess, granted, assigned>>

CreateUserNamed(F, UserSet, Usernames) ==
    \E f \in F, u \in UserSet, username \in Usernames : DoCreateUserNamed(f, u, username)

Tick ==
    /\ now < MaxTime
    /\ now' = now + 1
    /\ UNCHANGED <<users, projects, project_seq, project_members, invites, chats,
                   tasks, task_seq, sess, ret, granted, assigned>>

\* ------------------------------------------------------------------------
\* Members, owners and invites: sequential calls without storage faults.
Next ==
    \/ CreateUser({0})
    \/ CreateProject({0})
    \/ AddMember({0}, Roles)
    \/ RemoveMember({0})
    \/ UpdateMemberRole({0})
    \/ TransferProjectOwnership({0})
    \/ CreateInvite({0}, {1}, {NULL})
    \/ HandleInviteAcceptance({0}, UserIds)

Spec == Init /\ [][Next]_vars

\* ------------------------------------------------------------------------
\* Ownership transfer with a storage fault at any one of its storage calls,
\* among fault-free calls that create users and projects and add (with the
\* default role) and remove members.
FaultPositions == 0..MaxFaultPos

NextFault ==
    \/ CreateUser({0})
    \/ CreateProject({0})
    \/ AddMember({0}, {"member"})
    \/ RemoveMember({0})
    \/ TransferProjectOwnership(FaultPositions)

SpecFault == Init /\ [][NextFault]_vars

\* ------------------------------------------------------------------------
\* Invites of one project: the owner and MaxUses + 1 further registered
\* users, one more id that is not registered, invites with every limit and
\* expiry, and a clock.
InviteUsers == 1..(MaxUses + 2)
Acceptors == 1..(MaxUses + 3)
Limits == {NULL} \cup (1..MaxUses)
Expiries == {NULL} \cup (1..MaxTime)

InitInvite ==
    /\ users = [u \in InviteUsers |->
                   [username |-> NoUsername, first_name |-> "name", is_bot |-> FALSE]]
    /\ projects = [p \in {1} |-> [name |-> "alpha", owner_user_id |-> 1,
                                  description |-> None]]
    /\ project_seq = 1
    /\ project_members = EmptyFn
    /\ invites = EmptyFn
    /\ chats = EmptyFn
    /\ tasks = EmptyFn
    /\ task_seq = 0
    /\ now = 1
    /\ sess = Idle
    /\ ret = Ret("none", "ok", NULL, NULL, "", 0)
    /\ granted = [c \in InviteCodes |-> 0]
    /\ assigned = [p \in ProjectIds |-> <<>>]

NextInvite ==
    \/ CreateInvite({0}, Limits, Expiries)
    \/ DeleteInvite({0})
    \/ HandleInviteAcceptance({0}, Acceptors)
    \/ RemoveMember({0})
    \/ Tick

SpecInvite == InitInvite /\ [][NextInvite]_vars

\* ------------------------------------------------------------------------
\* Tasks of two projects of one registered user, created in one chat.
InitTask ==
    /\ users = [u \in {1} |->
                   [username |-> NoUsername, first_name |-> "name", is_bot |-> FALSE]]
    /\ projects = [p \in {1, 2} |->
                   [name |-> IF p = 1 THEN "alpha" ELSE "beta", owner_user_id |-> 1,
                    description |-> None]]
    /\ project_seq = 2
    /\ project_members = EmptyFn
    /\ invites = EmptyFn
    /\ chats = [c \in {1} |-> [type |-> "private"]]
    /\ tasks = EmptyFn
    /\ task_seq = 0
    /\ now = 1
    /\ sess = Idle
    /\ ret = Ret("none", "ok", NULL, NULL, "", 0)
    /\ granted = [c \in InviteCodes |-> 0]
    /\ assigned = [p \in ProjectIds |-> <<>>]

NextTask ==
    \/ CreateTask({0}, {"new"})
    \/ DeleteTask({0})

SpecTask == InitTask /\ [][NextTask]_vars

\* ------------------------------------------------------------------------
\* Two create_project calls, each in a session of its own, interleaved at
\* their storage calls (lines 147, 154, 155).  Project "alpha" is stored
\* before either starts; the last user id is not registered.
InitConc ==
    /\ users = [u \in 1..(MaxUsers - 1) |->
                   [username |-> NoUsername, first_name |-> "name", is_bot |-> FALSE]]
    /\ projects = [p \in {1} |-> [name |-> "alpha", owner_user_id |-> 1,
                                  description |-> None]]
    /\ project_seq = 1
    /\ project_members = EmptyFn
    /\ invites = EmptyFn
    /\ chats = EmptyFn
    /\ tasks = EmptyFn
    /\ task_seq = 0
    /\ now = 1
    /\ sess = Idle
    /\ ret = Ret("none", "ok", NULL, NULL, "", 0)
    /\ granted = [c \in InviteCodes |-> 0]
    /\ assigned = [p \in ProjectIds |-> <<>>]

ConcFrame ==
    UNCHANGED <<users, project_members, invites, chats, tasks, task_seq, now, ret,
                granted, assigned>>

\* the call starts in session s
create_project_call(s) ==
    \E u \in UserIds, name \in ProjectNames :
        /\ sess[s].pc = "idle"
        /\ sess' = [sess EXCEPT ![s] = [pc |-> "get_user", owner_user_id |-> u,
                                        name |-> name, res |-> ""]]
        /\ UNCHANGED <<projects, project_seq>>
        /\ ConcFrame

\* line 147: await get_user_by_id(session, owner_user_id)
create_project_get_user(s) ==
    /\ sess[s].pc = "get_user"
    /\ \E r \in {get_user_by_id(DB, 0, sess[s].owner_user_id)} :
          sess' = [sess EXCEPT ![s].pc = IF r.res = "ok" THEN "commit" ELSE "done",
                               ![s].res = IF r.res = "ok" THEN "" ELSE r.res]
    /\ UNCHANGED <<projects, project_seq>>
    /\ ConcFrame

\* line 154: await session.commit() sends the INSERT; the unique index on
\* projects.name decides it against the rows committed so far
create_project_commit(s) ==
    /\ sess[s].pc = "commit"
    /\ IF NameTaken(DB, NULL, sess[s].name)
       THEN /\ sess' = [sess EXCEPT ![s].pc = "done",
                                    ![s].res = "ProjectNameConflictError"]
            /\ UNCHANGED <<projects, project_seq>>
       ELSE /\ project_seq' = project_seq + 1
            /\ projects' = With(projects, project_seq + 1,
                                [name |-> sess[s].name,
                                 owner_user_id |-> sess[s].owner_user_id,
                                 description |-> None])
            /\ sess' = [sess EXCEPT ![s].pc = "refresh"]
    /\ ConcFrame

\* line 155: await session.refresh(db_project); return db_project
create_project_refresh(s) ==
    /\ sess[s].pc = "refresh"
    /\ sess' = [sess EXCEPT ![s].pc = "done", ![s].res = "ok"]
    /\ UNCHANGED <<projects, project_seq>>
    /\ ConcFrame

NextConc ==
    \E s \in SessionIds :
        \/ create_project_call(s)
        \/ create_project_get_user(s)
        \/ create_project_commit(s)
        \/ create_project_refresh(s)

SpecConc == InitConc /\ [][NextConc]_vars

\* ------------------------------------------------------------------------
\* Creation of up to MaxUpdatedTasks tasks, open or completed, and updates
\* of them: every argument of update_task is omitted, equal to the stored
\* value or different from it; user 2 and the task after the last one do
\* not exist; the clock moves.
MaxUpdatedTasks == 1

UpdatedStatuses == {"new", "completed"}

NextUpdate ==
    \/ \E status \in UpdatedStatuses :
          CreateTaskWith(MaxUpdatedTasks, 0, 1, 1, 1, NULL, status)
    \/ UpdateTask({0}, 1..MaxUpdatedTasks, {None, "other"}, {None, "more"},
                  {None, "no_such_status"} \cup UpdatedStatuses,
                  {sentinel, NULL, 1, 2}, {sentinel, NULL, 1})
    \/ UpdateTask({0}, {MaxUpdatedTasks + 1}, {"other"}, {None}, {None}, {sentinel}, {NULL})
    \/ Tick

SpecUpdate == InitTask /\ [][NextUpdate]_vars

\* ------------------------------------------------------------------------
\* create_task, up to MaxCreatedTasks stored tasks, with existing and
\* missing projects, creators, chats and assignees and with a valid and an
\* invalid status: project MaxProjects + 1, user 2 and chat 2 do not exist.
MaxCreatedTasks == 3

NextCreate ==
    \E p \in 1..(MaxProjects + 1), creator \in {1, 2}, chat \in {1, 2},
       assignee \in {NULL, 1, 2}, status \in {"new", "no_such_status"} :
        CreateTaskWith(MaxCreatedTasks, 0, p, creator, chat, assignee, status)

SpecCreate == InitTask /\ [][NextCreate]_vars

\* ------------------------------------------------------------------------
\* Upserts of two users, starting from empty tables, with and without a
\* username, two usernames that either user may ask for, two first names
\* and both values of is_bot.
NextUser ==
    UpsertUser({0}, {1, 2}, {NoUsername, "ann", "bob"}, {"name", "other"}, BOOLEAN)

SpecUser == Init /\ [][NextUser]_vars

\* ------------------------------------------------------------------------
\* update_project on the two stored projects "alpha" and "beta" and on a
\* missing one: name and description are each omitted, equal to the stored
\* value or different from it, the name possibly held by the other project,
\* the description possibly None.
NextProject ==
    UpdateProject({0}, 1..(MaxProjects + 1), {sentinel_str, None, "alpha", "beta", "gamma"},
                  {sentinel_str, None, "text", "more"})

SpecProject == InitTask /\ [][NextProject]_vars

\* ------------------------------------------------------------------------
\* The projects of a user, asked for among membership changes and ownership
\* transfers that may meet a storage fault: users 1 and 2 are registered
\* and own one project each.
InitRoles ==
    /\ users = [u \in {1, 2} |->
                   [username |-> NoUsername, first_name |-> "name", is_bot |-> FALSE]]
    /\ projects = [p \in {1, 2} |->
                   [name |-> IF p = 1 THEN "alpha" ELSE "beta", owner_user_id |-> p,
                    description |-> None]]
    /\ project_seq = 2
    /\ project_members = EmptyFn
    /\ invites = EmptyFn
    /\ chats = EmptyFn
    /\ tasks = EmptyFn
    /\ task_seq = 0
    /\ now = 1
    /\ sess = Idle
    /\ ret = Ret("none", "ok", NULL, NULL, "", 0)
    /\ granted = [c \in InviteCodes |-> 0]
    /\ assigned = [p \in ProjectIds |-> <<>>]

NextRoles ==
    \/ AddMember({0}, Roles)
    \/ RemoveMember({0})
    \/ TransferProjectOwnership(FaultPositions)
    \/ GetUserProjectsWithRoles({0})

SpecRoles == InitRoles /\ [][NextRoles]_vars

\* ------------------------------------------------------------------------
\* Deletion of projects that hold memberships, tasks and an invite: users 1
\* and 2 are registered and own one project each, tasks are created in
\* chat 1.
InitDelete ==
    /\ users = [u \in {1, 2} |->
                   [username |-> NoUsername, first_name |-> "name", is_bot |-> FALSE]]
    /\ projects = [p \in {1, 2} |->
                   [name |-> IF p = 1 THEN "alpha" ELSE "beta", owner_user_id |-> p,
                    description |-> None]]
    /\ project_seq = 2
    /\ project_members = EmptyFn
    /\ invites = EmptyFn
    /\ chats = [c \in {1} |-> [type |-> "private"]]
    /\ tasks = EmptyFn
    /\ task_seq = 0
    /\ now = 1
    /\ sess = Idle
    /\ ret = Ret("none", "ok", NULL, NULL, "", 0)
    /\ granted = [c \in InviteCodes |-> 0]
    /\ assigned = [p \in ProjectIds |-> <<>>]

NextDelete ==
    \/ AddMember({0}, {"member"})
    \/ CreateInvite({0}, {1}, {NULL})
    \/ CreateTask({0}, {"new"})
    \/ DeleteProject({0})

SpecDelete == InitDelete /\ [][NextDelete]_vars

\* ------------------------------------------------------------------------
\* Calls on the users and the invite of one project, each with a storage
\* fault at any one of its storage calls or with none.
NextStorageFault ==
    \/ CreateUser(FaultPositions)
    \/ CreateInvite(FaultPositions, 1..MaxUses, {NULL})
    \/ DeleteInvite(FaultPositions)
    \/ IncrementInviteUses(FaultPositions)
    \/ HandleInviteAcceptance(FaultPositions, {2, 3})

SpecStorageFault == InitInvite /\ [][NextStorageFault]_vars

\* ------------------------------------------------------------------------
\* create_user and get_or_create_and_update_user in two sessions,
\* interleaved at their storage calls; user 1 is stored, user 2 is not.  A
\* session holds in pending the objects added to it or changed in it that
\* neither a commit has written nor a rollback has discarded.  A commit may
\* fail at the storage layer (fault).
FirstNames == {"name", "other"}

UserSession(pc, op, user_id, first_name) ==
    [pc |-> pc, op |-> op, user_id |-> user_id, first_name |-> first_name,
     res |-> "", pending |-> {}, commit_failed |-> FALSE, rolled_back |-> FALSE]

InitUserRace ==
    /\ users = [u \in {1} |->
                   [username |-> NoUsername, first_name |-> "name", is_bot |-> FALSE]]
    /\ projects = EmptyFn
    /\ project_seq = 0
    /\ project_members = EmptyFn
    /\ invites = EmptyFn
    /\ chats = EmptyFn
    /\ tasks = EmptyFn
    /\ task_seq = 0
    /\ now = 1
    /\ sess = [s \in SessionIds |-> UserSession("idle", "", NULL, "")]
    /\ ret = Ret("none", "ok", NULL, NULL, "", 0)
    /\ granted = [c \in InviteCodes |-> 0]
    /\ assigned = [p \in ProjectIds |-> <<>>]

UserFrame ==
    UNCHANGED <<projects, project_seq, project_members, invites, chats, tasks, task_seq,
                now, ret, granted, assigned>>

\* lines 49-50: db_user = User(...); session.add(db_user)
create_user_call(s) ==
    \E u \in {1, 2}, first_name \in FirstNames :
        /\ sess[s].pc = "idle"
        /\ sess' = [sess EXCEPT ![s] =
                       [UserSession("create_commit", "create_user", u, first_name)
                           EXCEPT !.pending = {u}]]
        /\ UNCHANGED users
        /\ UserFrame

get_or_create_call(s) ==
    \E u \in {1, 2}, first_name \in FirstNames :
        /\ sess[s].pc = "idle"
        /\ sess' = [sess EXCEPT ![s] =
                       UserSession("get_user", "get_or_create_and_update_user",
                                   u, first_name)]
        /\ UNCHANGED users
        /\ UserFrame

\* lines 98-104 and 108-122: the SELECT of get_user_by_id; a user found is
\* changed in the session where a field differs, a user not found is handed
\* to create_user, which adds it to the session
get_or_create_get_user(s) ==
    /\ sess[s].pc = "get_user"
    /\ LET u == sess[s].user_id IN
       IF u \notin DOMAIN users
       THEN sess' = [sess EXCEPT ![s].pc = "create_commit", ![s].pending = {u}]
       ELSE IF users[u].first_name # sess[s].first_name
       THEN sess' = [sess EXCEPT ![s].pc = "update_commit", ![s].pending = {u}]
       ELSE sess' = [sess EXCEPT ![s].pc = "done", ![s].res = "ok"]
    /\ UNCHANGED users
    /\ UserFrame

\* lines 51 and 54-58: await session.commit() sends the INSERT.  The primary
\* key decides it against the rows committed so far: IntegrityError is
\* turned into UserAlreadyExistsError without a rollback; any other
\* SQLAlchemyError is rolled back and turned into DatabaseError.  Lines
\* 105-106 re-raise both.
create_user_commit(s) ==
    /\ sess[s].pc = "create_commit"
    /\ \E fault \in BOOLEAN :
       LET u == sess[s].user_id IN
       IF fault
       THEN /\ sess' = [sess EXCEPT ![s].pc = "done", ![s].res = "DatabaseError",
                                    ![s].commit_failed = TRUE,
                                    ![s].rolled_back = TRUE, ![s].pending = {}]
            /\ UNCHANGED users
       ELSE IF u \in DOMAIN users
       THEN /\ sess' = [sess EXCEPT ![s].pc = "done",
                                    ![s].res = "UserAlreadyExistsError",
                                    ![s].commit_failed = TRUE]
            /\ UNCHANGED users
       ELSE /\ users' = With(users, u, [username |-> NoUsername,
                                        first_name |-> sess[s].first_name,
                                        is_bot |-> FALSE])
            /\ sess' = [sess EXCEPT ![s].pc = "refresh", ![s].pending = {}]
    /\ UserFrame

\* lines 126 and 128-130: await session.commit() sends the UPDATE of the
\* changed field
get_or_create_commit(s) ==
    /\ sess[s].pc = "update_commit"
    /\ \E fault \in BOOLEAN :
       IF fault
       THEN /\ sess' = [sess EXCEPT ![s].pc = "done", ![s].res = "DatabaseError",
                                    ![s].commit_failed = TRUE,
                                    ![s].rolled_back = TRUE, ![s].pending = {}]
            /\ UNCHANGED users
       ELSE /\ users' = [users EXCEPT ![sess[s].user_id].first_name = sess[s].first_name]
            /\ sess' = [sess EXCEPT ![s].pc = "refresh", ![s].pending = {}]
    /\ UserFrame

\* lines 52-53 and 127, 131: await session.refresh(...); return the user
user_refresh(s) ==
    /\ sess[s].pc = "refresh"
    /\ sess' = [sess EXCEPT ![s].pc = "done", ![s].res = "ok"]
    /\ UNCHANGED users
    /\ UserFrame

NextUserRace ==
    \E s \in SessionIds :
        \/ create_user_call(s)
        \/ get_or_create_call(s)
        \/ get_or_create_get_user(s)
        \/ create_user_commit(s)
        \/ get_or_create_commit(s)
        \/ user_refresh(s)

SpecUserRace == InitUserRace /\ [][NextUserRace]_vars

\* ------------------------------------------------------------------------
\* The counter of an invite under direct increment_invite_uses calls and
\* acceptances, without storage faults.
NextUses ==
    \/ CreateInvite({0}, Limits, {NULL})
    \/ DeleteInvite({0})
    \/ IncrementInviteUses({0})
    \/ HandleInviteAcceptance({0}, Acceptors)

SpecUses == InitInvite /\ [][NextUses]_vars

\* ------------------------------------------------------------------------
\* Invites with two codes for one project; the invite 'ABC' is also used
\* and deleted.
TwoCodes == {"ABC", "XYZ"}

NextCodes ==
    \/ CreateInviteWithCode({0}, TwoCodes, Limits)
    \/ IncrementInviteUses({0})
    \/ DeleteInvite({0})

SpecCodes == InitInvite /\ [][NextCodes]_vars

\* ------------------------------------------------------------------------
\* create_task in two sessions, interleaved at its storage calls, for two
\* projects, a registered and an unregistered creator and a status that is
\* valid or not.
TaskSession(pc, project_id, creator_user_id, status) ==
    [pc |-> pc, project_id |-> project_id, creator_user_id |-> creator_user_id,
     status |-> status, next_task_id_in_project |-> NULL, res |-> ""]

InitTaskRace ==
    /\ users = [u \in {1} |->
                   [username |-> NoUsername, first_name |-> "name", is_bot |-> FALSE]]
    /\ projects = [p \in {1, 2} |->
                   [name |-> IF p = 1 THEN "alpha" ELSE "beta", owner_user_id |-> 1,
                    description |-> None]]
    /\ project_seq = 2
    /\ project_members = EmptyFn
    /\ invites = EmptyFn
    /\ chats = [c \in {1} |-> [type |-> "private"]]
    /\ tasks = EmptyFn
    /\ task_seq = 0
    /\ now = 1
    /\ sess = [s \in SessionIds |-> TaskSession("idle", NULL, NULL, "")]
    /\ ret = Ret("none", "ok", NULL, NULL, "", 0)
    /\ granted = [c \in InviteCodes |-> 0]
    /\ assigned = [p \in ProjectIds |-> <<>>]

TaskFrame ==
    UNCHANGED <<users, projects, project_seq, project_members, invites, chats, now, ret,
                granted, assigned>>

create_task_call(s) ==
    \E p \in ProjectIds, creator \in {1, 2}, status \in {"new", "no_such_status"} :
        /\ sess[s].pc = "idle"
        /\ sess' = [sess EXCEPT ![s] = TaskSession("checks", p, creator, status)]
        /\ UNCHANGED <<tasks, task_seq>>
        /\ TaskFrame

\* lines 519-527: the lookups of project, creator and chat (no assignee is
\* passed) and the status validation; no call of this specification writes
\* the tables they read
create_task_checks(s) ==
    /\ sess[s].pc = "checks"
    /\ LET r1 == get_project_by_id(DB, 0, sess[s].project_id)
           r2 == get_user_by_id(DB, 0, sess[s].creator_user_id)
           r3 == get_chat_by_chat_id(DB, 0, 1)
           res == IF r1.res # "ok" THEN r1.res
                  ELSE IF r2.res # "ok" THEN r2.res
                  ELSE IF r3.res # "ok" THEN r3.res
                  ELSE IF sess[s].status \notin TaskStatus THEN "InvalidTaskStatusError"
                  ELSE "ok"
       IN sess' = [sess EXCEPT ![s].pc = IF res = "ok" THEN "next_id" ELSE "done",
                               ![s].res = IF res = "ok" THEN "" ELSE res]
    /\ UNCHANGED <<tasks, task_seq>>
    /\ TaskFrame

\* line 529: the max query of _get_next_task_id_in_project over the rows
\* committed so far
create_task_next_id(s) ==
    /\ sess[s].pc = "next_id"
    /\ sess' = [sess EXCEPT ![s].pc = "commit",
                            ![s].next_task_id_in_project =
                                NextNumber(DB, sess[s].project_id)]
    /\ UNCHANGED <<tasks, task_seq>>
    /\ TaskFrame

\* lines 536 and 539-541: await session.commit() sends the INSERT; the
\* unique constraint on (project_id, task_id_in_project) decides it against
\* the rows committed so far, and the IntegrityError is rolled back and
\* raised as DatabaseError
create_task_commit(s) ==
    /\ sess[s].pc = "commit"
    /\ IF NumberTaken(DB, sess[s].project_id, sess[s].next_task_id_in_project)
       THEN /\ sess' = [sess EXCEPT ![s].pc = "done", ![s].res = "DatabaseError"]
            /\ UNCHANGED <<tasks, task_seq>>
       ELSE /\ task_seq' = task_seq + 1
            /\ tasks' = With(tasks, task_seq + 1,
                             [project_id |-> sess[s].project_id,
                              task_id_in_project |-> sess[s].next_task_id_in_project,
                              title |-> "title", description |-> "text",
                              status |-> sess[s].status,
                              creator_user_id |-> sess[s].creator_user_id,
                              assignee_user_id |-> NULL, chat_id_created_in |-> 1,
                              completed_at |-> NULL, due_date |-> NULL])
            /\ sess' = [sess EXCEPT ![s].pc = "refresh"]
    /\ TaskFrame

\* lines 537-538: await session.refresh(db_task); return db_task
create_task_refresh(s) ==
    /\ sess[s].pc = "refresh"
    /\ sess' = [sess EXCEPT ![s].pc = "done", ![s].res = "ok"]
    /\ UNCHANGED <<tasks, task_seq>>
    /\ TaskFrame

NextTaskRace ==
    \E s \in SessionIds :
        \/ create_task_call(s)
        \/ create_task_checks(s)
        \/ create_task_next_id(s)
        \/ create_task_commit(s)
        \/ create_task_refresh(s)

SpecTaskRace == InitTaskRace /\ [][NextTaskRace]_vars

\* ------------------------------------------------------------------------
\* add_member_to_project, transfer_project_ownership and
\* handle_invite_acceptance in two sessions, interleaved at their storage
\* calls.  Users 1 to 3 are registered, user 1 owns project 1, and the
\* invite 'ABC' of project 1 has max_uses = MaxUses and one or two uses
\* left (ret.value keeps the current_uses it starts with).  Session 1 may
\* run any of the three calls, session 2 an addition or an acceptance, for
\* user 2 or 3.  A session keeps the objects it has loaded: project_owner
\* and current_uses are the attributes of its Project and Invites objects,
\* and a later query for the same row yields the loaded attributes or the
\* stored ones.
MemberSession(pc, op, user_id, role, new_owner_user_id) ==
    [pc |-> pc, op |-> op, project_id |-> 1, user_id |-> user_id, role |-> role,
     new_owner_user_id |-> new_owner_user_id, old_owner_user_id |-> NULL,
     project_owner |-> NULL, invite_code |-> "ABC", current_uses |-> -1,
     at_limit |-> FALSE, granted |-> FALSE, res |-> ""]

InitMemberRace ==
    /\ users = [u \in 1..3 |->
                   [username |-> NoUsername, first_name |-> "name", is_bot |-> FALSE]]
    /\ projects = [p \in {1} |-> [name |-> "alpha", owner_user_id |-> 1,
                                  description |-> None]]
    /\ project_seq = 1
    /\ project_members = EmptyFn
    /\ \E current_uses \in {MaxUses - 2, MaxUses - 1} :
          /\ invites = [c \in {"ABC"} |->
                           [project_id |-> 1, max_uses |-> MaxUses,
                            current_uses |-> current_uses, expires_at |-> NULL]]
          /\ ret = Ret("none", "ok", NULL, NULL, "ABC", current_uses)
    /\ chats = EmptyFn
    /\ tasks = EmptyFn
    /\ task_seq = 0
    /\ now = 1
    /\ sess = [s \in SessionIds |-> MemberSession("idle", "", NULL, "", NULL)]
    /\ granted = [c \in InviteCodes |-> 0]
    /\ assigned = [p \in ProjectIds |-> <<>>]

MemberFrame ==
    UNCHANGED <<users, project_seq, chats, tasks, task_seq, now, ret, granted, assigned>>

\* the call of session s ends with res
Finish(s, res) == sess' = [sess EXCEPT ![s].pc = "done", ![s].res = res]

\* the owner that get_project_by_id yields in session s: the attribute of
\* the Project object the session has loaded or the stored one
OwnerSeen(s) ==
    {projects[sess[s].project_id].owner_user_id}
    \cup (IF sess[s].project_owner = NULL THEN {} ELSE {sess[s].project_owner})

add_member_call(s) ==
    \E u \in {2, 3}, role \in Roles :
        /\ sess[s].pc = "idle"
        /\ sess' = [sess EXCEPT ![s] =
                       MemberSession("add_get_project", "add_member_to_project",
                                     u, role, NULL)]
        /\ UNCHANGED <<projects, project_members, invites>>
        /\ MemberFrame

\* line 349: project = await get_project_by_id(session, project_id)
add_member_get_project(s) ==
    /\ sess[s].pc = "add_get_project"
    /\ \E owner \in OwnerSeen(s) :
          sess' = [sess EXCEPT ![s].pc = "add_existing", ![s].project_owner = owner]
    /\ UNCHANGED <<projects, project_members, invites>>
    /\ MemberFrame

\* lines 350-364: get_user_by_id (no call of this specification writes
\* users), the owner test on the loaded project and the query for a stored
\* row
add_member_existing(s) ==
    /\ sess[s].pc = "add_existing"
    /\ IF sess[s].project_owner = sess[s].user_id
       THEN Finish(s, "UserAlreadyProjectOwner")
       ELSE IF <<sess[s].project_id, sess[s].user_id>> \in DOMAIN project_members
       THEN Finish(s, "UserAlreadyMemberError")
       ELSE sess' = [sess EXCEPT ![s].pc = "add_commit"]
    /\ UNCHANGED <<projects, project_members, invites>>
    /\ MemberFrame

\* lines 369 and 372-374: await session.commit() sends the INSERT; the
\* primary key (project_id, user_id) decides it against the rows committed
\* so far, and the IntegrityError is rolled back and raised as DatabaseError
add_member_commit(s) ==
    /\ sess[s].pc = "add_commit"
    /\ LET k == <<sess[s].project_id, sess[s].user_id>> IN
       IF k \in DOMAIN project_members
       THEN Finish(s, "DatabaseError") /\ UNCHANGED project_members
       ELSE /\ project_members' = With(project_members, k, sess[s].role)
            /\ sess' = [sess EXCEPT ![s].pc = "add_refresh",
                                    ![s].granted = TRUE]
    /\ UNCHANGED <<projects, invites>>
    /\ MemberFrame

\* lines 370-374: await session.refresh(new_membership) fails when the row
\* is gone; add_member_to_project returns to its caller
add_member_refresh(s) ==
    /\ sess[s].pc = "add_refresh"
    /\ IF <<sess[s].project_id, sess[s].user_id>> \notin DOMAIN project_members
       THEN Finish(s, "DatabaseError")
       ELSE IF sess[s].op = "handle_invite_acceptance"
       THEN sess' = [sess EXCEPT ![s].pc = "inc_get_invite"]
       ELSE Finish(s, "ok")
    /\ UNCHANGED <<projects, project_members, invites>>
    /\ MemberFrame

transfer_call(s) ==
    \E u \in {2, 3} :
        /\ sess[s].pc = "idle"
        /\ sess' = [sess EXCEPT ![s] =
                       MemberSession("transfer_get_project", "transfer_project_ownership",
                                     NULL, "member", u)]
        /\ UNCHANGED <<projects, project_members, invites>>
        /\ MemberFrame

\* lines 283-289: get_project_by_id, get_user_by_id and the test for the
\* owner asking for itself
transfer_get_project(s) ==
    /\ sess[s].pc = "transfer_get_project"
    /\ LET owner == projects[sess[s].project_id].owner_user_id IN
       IF owner = sess[s].new_owner_user_id THEN Finish(s, "ok")
       ELSE sess' = [sess EXCEPT ![s].pc = "transfer_commit",
                                 ![s].old_owner_user_id = owner]
    /\ UNCHANGED <<projects, project_members, invites>>
    /\ MemberFrame

\* lines 292-297: project.owner_user_id = new_owner_user_id; commit; refresh
transfer_commit(s) ==
    /\ sess[s].pc = "transfer_commit"
    /\ projects' = [projects EXCEPT ![sess[s].project_id].owner_user_id =
                                        sess[s].new_owner_user_id]
    /\ sess' = [sess EXCEPT ![s].pc = "remove_get_member",
                            ![s].project_owner = sess[s].new_owner_user_id]
    /\ UNCHANGED <<project_members, invites>>
    /\ MemberFrame

\* lines 299-302 and 467: get_project_member for the new owner;
\* MemberNotFoundError is passed over; line 304 then calls
\* add_member_to_project for the old owner
remove_member_get_member(s) ==
    /\ sess[s].pc = "remove_get_member"
    /\ IF <<sess[s].project_id, sess[s].new_owner_user_id>> \in DOMAIN project_members
       THEN sess' = [sess EXCEPT ![s].pc = "remove_commit"]
       ELSE sess' = [sess EXCEPT ![s].pc = "add_get_project",
                                 ![s].user_id = sess[s].old_owner_user_id]
    /\ UNCHANGED <<projects, project_members, invites>>
    /\ MemberFrame

\* lines 469-471: the DELETE of the row and its commit
remove_member_commit(s) ==
    /\ sess[s].pc = "remove_commit"
    /\ project_members' = Without(project_members,
                                  <<sess[s].project_id, sess[s].new_owner_user_id>>)
    /\ sess' = [sess EXCEPT ![s].pc = "add_get_project",
                            ![s].user_id = sess[s].old_owner_user_id]
    /\ UNCHANGED <<projects, invites>>
    /\ MemberFrame

accept_call(s) ==
    \E u \in {2, 3} :
        /\ sess[s].pc = "idle"
        /\ sess' = [sess EXCEPT ![s] =
                       MemberSession("accept_get_invite", "handle_invite_acceptance",
                                     u, "member", NULL)]
        /\ UNCHANGED <<projects, project_members, invites>>
        /\ MemberFrame

\* lines 1010-1017: get_invite_by_code and the tests of expiry and limit on
\* the invite loaded
accept_get_invite(s) ==
    /\ sess[s].pc = "accept_get_invite"
    /\ LET c == sess[s].invite_code IN
       IF c \notin DOMAIN invites THEN Finish(s, "InviteNotFoundError")
       ELSE IF invites[c].expires_at # NULL /\ invites[c].expires_at < now
       THEN Finish(s, "InviteExpiredError")
       ELSE IF invites[c].max_uses # NULL /\ invites[c].current_uses >= invites[c].max_uses
       THEN Finish(s, "InviteMaxUsesReachedError")
       ELSE sess' = [sess EXCEPT ![s].pc = "accept_get_member",
                                 ![s].current_uses = invites[c].current_uses]
    /\ UNCHANGED <<projects, project_members, invites>>
    /\ MemberFrame

\* lines 1019-1028: get_user_by_id and get_project_member, which loads the
\* project; a stored row is UserAlreadyMemberError; line 1030 then calls
\* add_member_to_project
accept_get_member(s) ==
    /\ sess[s].pc = "accept_get_member"
    /\ IF <<sess[s].project_id, sess[s].user_id>> \in DOMAIN project_members
       THEN Finish(s, "UserAlreadyMemberError")
       ELSE sess' = [sess EXCEPT ![s].pc = "add_get_project",
                                 ![s].project_owner =
                                     projects[sess[s].project_id].owner_user_id]
    /\ UNCHANGED <<projects, project_members, invites>>
    /\ MemberFrame

\* lines 881-888: get_invite_by_code yields the loaded counter or the
\* stored one; invite.current_uses += 1; the test of the limit
increment_get_invite(s) ==
    /\ sess[s].pc = "inc_get_invite"
    /\ LET c == sess[s].invite_code IN
       IF c \notin DOMAIN invites THEN Finish(s, "InviteNotFoundError")
       ELSE \E current_uses \in {sess[s].current_uses, invites[c].current_uses} :
               sess' = [sess EXCEPT ![s].pc = "inc_commit",
                                    ![s].current_uses = current_uses + 1,
                                    ![s].at_limit = /\ invites[c].max_uses # NULL
                                                    /\ current_uses + 1 >= invites[c].max_uses]
    /\ UNCHANGED <<projects, project_members, invites>>
    /\ MemberFrame

\* lines 889 and 895: await session.commit() sends the UPDATE of the
\* counter; it fails when the row is gone: raw on the branch of the limit,
\* rolled back and raised as DatabaseError on the other
increment_commit(s) ==
    /\ sess[s].pc = "inc_commit"
    /\ LET c == sess[s].invite_code IN
       IF c \notin DOMAIN invites
       THEN /\ Finish(s, IF sess[s].at_limit THEN "SQLAlchemyError" ELSE "DatabaseError")
            /\ UNCHANGED invites
       ELSE /\ invites' = [invites EXCEPT ![c].current_uses = sess[s].current_uses]
            /\ sess' = [sess EXCEPT ![s].pc = "inc_refresh"]
    /\ UNCHANGED <<projects, project_members>>
    /\ MemberFrame

\* lines 890-891 and 896-897: await session.refresh(invite) reloads the
\* counter; on the branch of the limit InviteMaxUsesReachedError is raised;
\* otherwise lines 1032-1037 delete an invite that the reloaded counter
\* shows as exhausted and return the membership
increment_refresh(s) ==
    /\ sess[s].pc = "inc_refresh"
    /\ LET c == sess[s].invite_code IN
       IF c \notin DOMAIN invites
       THEN Finish(s, IF sess[s].at_limit THEN "SQLAlchemyError" ELSE "DatabaseError")
       ELSE IF sess[s].at_limit THEN Finish(s, "InviteMaxUsesReachedError")
       ELSE IF invites[c].max_uses # NULL /\ invites[c].current_uses >= invites[c].max_uses
       THEN sess' = [sess EXCEPT ![s].pc = "delete_invite",
                                 ![s].current_uses = invites[c].current_uses]
       ELSE sess' = [sess EXCEPT ![s].pc = "done", ![s].res = "ok",
                                 ![s].current_uses = invites[c].current_uses]
    /\ UNCHANGED <<projects, project_members, invites>>
    /\ MemberFrame

\* lines 914-920: delete_invite_by_code: get_invite_by_code, the DELETE and
\* its commit
delete_invite_commit(s) ==
    /\ sess[s].pc = "delete_invite"
    /\ LET c == sess[s].invite_code IN
       IF c \notin DOMAIN invites
       THEN Finish(s, "InviteNotFoundError") /\ UNCHANGED invites
       ELSE invites' = Without(invites, c) /\ Finish(s, "ok")
    /\ UNCHANGED <<projects, project_members>>
    /\ MemberFrame

add_member_steps(s) ==
    \/ add_member_get_project(s)
    \/ add_member_existing(s)
    \/ add_member_commit(s)
    \/ add_member_refresh(s)

transfer_steps(s) ==
    \/ transfer_get_project(s)
    \/ transfer_commit(s)
    \/ remove_member_get_member(s)
    \/ remove_member_commit(s)

accept_steps(s) ==
    \/ accept_get_invite(s)
    \/ accept_get_member(s)
    \/ increment_get_invite(s)
    \/ increment_commit(s)
    \/ increment_refresh(s)
    \/ delete_invite_commit(s)

NextMemberRace ==
    \/ transfer_call(1)
    \/ \E s \in SessionIds :
          \/ add_member_call(s)
          \/ accept_call(s)
          \/ add_member_steps(s)
          \/ transfer_steps(s)
          \/ accept_steps(s)

SpecMemberRace == InitMemberRace /\ [][NextMemberRace]_vars

\* ------------------------------------------------------------------------
\* Links between two projects and two chats; project 3 and chat 3 are not
\* stored.
InitChats ==
    /\ users = [u \in {1} |->
                   [username |-> NoUsername, first_name |-> "name", is_bot |-> FALSE]]
    /\ projects = [p \in {1, 2} |->
                   [name |-> IF p = 1 THEN "alpha" ELSE "beta", owner_user_id |-> 1,
                    description |-> None]]
    /\ project_seq = 2
    /\ project_members = EmptyFn
    /\ invites = EmptyFn
    /\ chats = [c \in {1, 2} |-> [type |-> "group", projects |-> {}]]
    /\ tasks = EmptyFn
    /\ task_seq = 0
    /\ now = 1
    /\ sess = Idle
    /\ ret = Ret("none", "ok", NULL, NULL, "", 0)
    /\ granted = [c \in InviteCodes |-> 0]
    /\ assigned = [p \in ProjectIds |-> <<>>]

NextChats ==
    \/ AddChatToProject({0}, 1..3, 1..3)
    \/ RemoveChatFromProject({0}, 1..3, 1..3)

SpecChats == InitChats /\ [][NextChats]_vars

\* ------------------------------------------------------------------------
\* update_task calls through one session on two stored tasks, with valid
\* and invalid statuses and an unregistered assignee.
InitTaskSession ==
    /\ users = [u \in {1} |->
                   [username |-> NoUsername, first_name |-> "name", is_bot |-> FALSE]]
    /\ projects = [p \in {1} |-> [name |-> "alpha", owner_user_id |-> 1,
                                  description |-> None]]
    /\ project_seq = 1
    /\ project_members = EmptyFn
    /\ invites = EmptyFn
    /\ chats = [c \in {1} |-> [type |-> "private"]]
    /\ tasks = [x \in {1, 2} |->
                   [project_id |-> 1, task_id_in_project |-> x, title |-> "title",
                    description |-> "text", status |-> "new", creator_user_id |-> 1,
                    assignee_user_id |-> NULL, chat_id_created_in |-> 1,
                    completed_at |-> NULL, due_date |-> NULL]]
    /\ task_seq = 2
    /\ now = 1
    /\ sess = [s \in SessionIds |-> [pc |-> "idle", dirty |-> EmptyFn]]
    /\ ret = Ret("none", "ok", NULL, NULL, "", 0)
    /\ granted = [c \in InviteCodes |-> 0]
    /\ assigned = [p \in ProjectIds |-> <<>>]

NextTaskSession ==
    UpdateTaskIn({1}, {1, 2}, {None, "other"}, {None},
                 {None, "no_such_status", "completed"}, {sentinel, 2}, {sentinel, 1})

SpecTaskSession == InitTaskSession /\ [][NextTaskSession]_vars

\* ------------------------------------------------------------------------
\* create_task and update_task with every status of the enumeration, with
\* a string outside it and, for update_task, with the status omitted, on
\* up to two tasks of project 1.
AnyStatus == TaskStatus \cup {"no_such_status"}

NextStatus ==
    \/ \E status \in AnyStatus : CreateTaskWith(MaxUpdatedTasks + 1, 0, 1, 1, 1, NULL, status)
    \/ UpdateTask({0}, 1..(MaxUpdatedTasks + 1), {None}, {None}, {None} \cup AnyStatus,
                  {sentinel}, {sentinel})

SpecStatus == InitTask /\ [][NextStatus]_vars

\* ------------------------------------------------------------------------
\* create_user for the users 1..MaxUsers, starting from an empty table,
\* without a username or with one of two usernames that any of them may
\* ask for.
NextCreateUser == CreateUserNamed({0}, UserIds, {NoUsername, "ann", "bob"})

SpecCreateUser == Init /\ [][NextCreateUser]_vars

\* ------------------------------------------------------------------------
\* The /invite handler, one step per awaited call, called again and again
\* by the owner of the two projects, for a stored and a missing project,
\* with invites deleted in between.  generate_invite_code is random: it
\* yields any of TwoCodes.  looked_up is the argument of the last
\* get_invite_by_code call of the handler.
InviteSession(pc, project_id, user_id, max_uses, _invite_code, invite_code, looked_up) ==
    [pc |-> pc, project_id |-> project_id, user_id |-> user_id, max_uses |-> max_uses,
     _invite_code |-> _invite_code, invite_code |-> invite_code, looked_up |-> looked_up]

InitInviteHandler ==
    /\ users = [u \in {1} |->
                   [username |-> NoUsername, first_name |-> "name", is_bot |-> FALSE]]
    /\ projects = [p \in {1, 2} |->
                   [name |-> IF p = 1 THEN "alpha" ELSE "beta", owner_user_id |-> 1,
                    description |-> None]]
    /\ project_seq = 2
    /\ project_members = EmptyFn
    /\ invites = EmptyFn
    /\ chats = [c \in {1} |-> [type |-> "private"]]
    /\ tasks = EmptyFn
    /\ task_seq = 0
    /\ now = 1
    /\ sess = [s \in SessionIds |-> InviteSession("idle", NULL, NULL, NULL, None, None, None)]
    /\ ret = Ret("none", "ok", NULL, NULL, "", 0)
    /\ granted = [c \in InviteCodes |-> 0]
    /\ assigned = [p \in ProjectIds |-> <<>>]

InviteFrame == UNCHANGED <<now, granted, assigned>>

\* lines 306-331: get_project_by_id and the role of the caller, here the
\* owner; invite_code = None
handle_invite_call(s) ==
    /\ sess[s].pc \in {"idle", "done"}
    /\ \E project_id \in 1..(MaxProjects + 1), max_uses \in Limits :
       \E r \in {get_project_by_id(DB, 0, project_id)} :
          /\ sess' = [sess EXCEPT ![s] =
                        InviteSession(IF r.res = "ok" THEN "generate" ELSE "done",
                                      project_id, 1, max_uses, None, None, None)]
          /\ ret' = IF r.res = "ok" THEN ret
                    ELSE Ret("handle_invite", r.res, project_id, 1, "", max_uses)
    /\ Store(DB)
    /\ InviteFrame

\* lines 334-335: while invite_code is None, _invite_code is generated
handle_invite_generate(s) ==
    /\ sess[s].pc = "generate"
    /\ \E code \in TwoCodes :
          sess' = [sess EXCEPT ![s]._invite_code = code, ![s].pc = "lookup"]
    /\ Store(DB)
    /\ UNCHANGED ret
    /\ InviteFrame

\* lines 336-339: get_invite_by_code is called with invite_code, which is
\* None here, and not with _invite_code; on InviteNotFoundError invite_code
\* becomes _invite_code and the loop ends, otherwise it repeats
handle_invite_lookup(s) ==
    /\ sess[s].pc = "lookup"
    /\ \E r \in {get_invite_by_code(DB, 0, sess[s].invite_code)} :
          sess' = [sess EXCEPT
                      ![s].looked_up = sess[s].invite_code,
                      ![s].invite_code = IF r.res = "InviteNotFoundError"
                                         THEN sess[s]._invite_code ELSE @,
                      ![s].pc = IF r.res = "InviteNotFoundError" THEN "create"
                                ELSE "generate"]
    /\ Store(DB)
    /\ UNCHANGED ret
    /\ InviteFrame

\* line 341: create_invite with the code the loop left in invite_code
handle_invite_create(s) ==
    /\ sess[s].pc = "create"
    /\ \E r \in {create_invite(DB, 0, sess[s].project_id, sess[s].user_id,
                               sess[s].invite_code, sess[s].max_uses, NULL)} :
          /\ Store(r.db)
          /\ ret' = Ret("handle_invite", r.res, sess[s].project_id, sess[s].user_id,
                        sess[s].invite_code, sess[s].max_uses)
    /\ sess' = [sess EXCEPT ![s].pc = "done"]
    /\ InviteFrame

NextInviteHandler ==
    \/ handle_invite_call(1)
    \/ handle_invite_generate(1)
    \/ handle_invite_lookup(1)
    \/ handle_invite_create(1)
    \/ (sess[1].pc \in {"idle", "done"} /\ DeleteInvite({0}))

SpecInviteHandler == InitInviteHandler /\ [][NextInviteHandler]_vars

\* ------------------------------------------------------------------------
\* transfer_project_ownership of project 1 in two sessions, interleaved at
\* the storage calls, one call after another in each session.  User 1 owns
\* the project at the start, user 2 is a member of it and user 3 is a
\* member or not; ret.value keeps the users that are owner or member at
\* the start.
InitTransferRace ==
    /\ users = [u \in 1..3 |->
                   [username |-> NoUsername, first_name |-> "name", is_bot |-> FALSE]]
    /\ projects = [p \in {1} |-> [name |-> "alpha", owner_user_id |-> 1,
                                  description |-> None]]
    /\ project_seq = 1
    /\ \E Members \in {{2}, {2, 3}} :
          /\ project_members = [k \in {1} \X Members |-> "member"]
          /\ ret = Ret("none", "ok", NULL, NULL, "", {1} \cup Members)
    /\ invites = EmptyFn
    /\ chats = EmptyFn
    /\ tasks = EmptyFn
    /\ task_seq = 0
    /\ now = 1
    /\ sess = [s \in SessionIds |-> MemberSession("idle", "", NULL, "", NULL)]
    /\ granted = [c \in InviteCodes |-> 0]
    /\ assigned = [p \in ProjectIds |-> <<>>]

\* the handler that made the call leaves its 'async with' block; its next
\* call opens a new session
session_close(s) ==
    /\ sess[s].pc = "done"
    /\ sess' = [sess EXCEPT ![s] = MemberSession("idle", "", NULL, "", NULL)]
    /\ UNCHANGED <<projects, project_members, invites>>
    /\ MemberFrame

NextTransferRace ==
    \E s \in SessionIds :
        \/ transfer_call(s)
        \/ transfer_steps(s)
        \/ add_member_steps(s)
        \/ session_close(s)

SpecTransferRace == InitTransferRace /\ [][NextTransferRace]_vars

\* ================================================================= claims
HasRow(p, u) == <<p, u>> \in DOMAIN project_members

\* C1: no project has a membership row for its own owner, in every state
\* reached by fault-free sequential calls of create_project,
\* add_member_to_project, remove_member_from_project, update_member_role,
\* transfer_project_ownership and handle_invite_acceptance.
C1_OwnerNeverMember ==
    \A p \in DOMAIN projects : ~HasRow(p, projects[p].owner_user_id)

\* an ownership transfer to a user who was a member has completed
C1_Witness ==
    /\ ret.op = "transfer_project_ownership" /\ ret.res = "ok"
    /\ ret.value # ret.user_id
    /\ HasRow(ret.project_id, ret.value)
    /\ \E p \in DOMAIN projects : \E u \in UserIds : u # ret.value /\ HasRow(p, u)

\* the state transfer_project_ownership(p, u) is meant to leave, old being
\* the owner before the call
Reconciled(p, u, old) ==
    /\ projects'[p].owner_user_id = u
    /\ <<p, u>> \notin DOMAIN project_members'
    /\ <<p, old>> \in DOMAIN project_members'

\* C2: transfer_project_ownership is all-or-nothing: whatever its outcome,
\* a call with a new owner different from the current one leaves the tables
\* as they were or fully reconciled.
C2_TransferAllOrNothing ==
    [][\A f \in FaultPositions, p \in ProjectIds, u \in UserIds :
           (Transfer(f, p, u) /\ p \in DOMAIN projects /\ u \in DOMAIN users
                              /\ OwnerOf(p) # u)
           => (DB' = DB \/ Reconciled(p, u, OwnerOf(p)))]_vars

\* C3: a transfer that returns successfully with a new owner different from
\* the previous one stores the new owner, leaves no row for the new owner,
\* leaves a row with role 'member' for the old owner, and changes no other
\* membership row of any project.
C3_TransferPostcondition ==
    [][(ret'.op = "transfer_project_ownership" /\ ret'.res = "ok")
       => LET p == ret'.project_id
              u == ret'.user_id
          IN (Transfer(0, p, u) /\ OwnerOf(p) # u)
             => /\ Reconciled(p, u, OwnerOf(p))
                /\ project_members'[<<p, OwnerOf(p)>>] = "member"
                /\ \A k \in (DOMAIN project_members \cup DOMAIN project_members')
                              \ {<<p, u>>, <<p, OwnerOf(p)>>} :
                      /\ k \in DOMAIN project_members
                      /\ k \in DOMAIN project_members'
                      /\ project_members'[k] = project_members[k]]_vars

\* a transfer to a former helper has returned, with a row in another project
C3_Witness ==
    /\ ret.op = "transfer_project_ownership" /\ ret.res = "ok"
    /\ ret.value # ret.user_id
    /\ projects[ret.project_id].owner_user_id = ret.user_id
    /\ \E q \in DOMAIN projects : \E v \in UserIds :
          q # ret.project_id /\ HasRow(q, v) /\ project_members[<<q, v>>] = "helper"

\* --------------------------------------------------------------- projects
Returned(s) == sess[s].pc = "done"
Registered(s) == sess[s].owner_user_id \in DOMAIN users
Stored(name) == {p \in DOMAIN projects : projects[p].name = name}

\* C4: project names are pairwise distinct; create_project with a name that
\* a stored project holds raises ProjectNameConflictError and stores
\* nothing; of two concurrent create_project calls with the same free name
\* exactly one succeeds and the other raises ProjectNameConflictError.
C4_UniqueProjectNames ==
    /\ \A p, q \in DOMAIN projects : projects[p].name = projects[q].name => p = q
    /\ \A s \in SessionIds :
          (Returned(s) /\ Registered(s) /\ sess[s].name = "alpha")
          => sess[s].res = "ProjectNameConflictError" /\ Stored("alpha") = {1}
    /\ \A s, t \in SessionIds :
          (/\ s # t /\ Returned(s) /\ Returned(t) /\ Registered(s) /\ Registered(t)
           /\ sess[s].name = sess[t].name /\ sess[s].name # "alpha")
          => /\ {sess[s].res, sess[t].res} = {"ok", "ProjectNameConflictError"}
             /\ Cardinality(Stored(sess[s].name)) = 1

\* both calls have returned after asking for the same free name
C4_Witness ==
    /\ \A s \in SessionIds : Returned(s) /\ Registered(s) /\ sess[s].name = "beta"
    /\ sess[1].res = "ProjectNameConflictError"
    /\ sess[2].res = "ok"

\* ------------------------------------------------------------------ tasks
\* C5: within a project every create_task assigns a number greater than
\* every number assigned there before, deleted tasks included.
C5_NumbersNeverReused ==
    \A p \in ProjectIds :
        \A i, j \in 1..Len(assigned[p]) : i < j => assigned[p][i] < assigned[p][j]

StoredNumbers(p) ==
    {tasks[t].task_id_in_project : t \in {x \in DOMAIN tasks : tasks[x].project_id = p}}

\* C6: create_task on an existing project assigns 1 when the project has no
\* stored task and otherwise the largest stored number of that project plus
\* one, whatever the other projects hold.
C6_NextNumberIsMaxPlusOne ==
    [][(ret'.op = "create_task" /\ ret'.res = "ok")
       => LET p == ret'.project_id
          IN DoCreateTask(0, p, "new")
             => /\ task_seq' \in DOMAIN tasks' /\ task_seq' \notin DOMAIN tasks
                /\ tasks'[task_seq'].project_id = p
                /\ tasks'[task_seq'].task_id_in_project =
                      IF StoredNumbers(p) = {} THEN 1
                      ELSE (CHOOSE m \in StoredNumbers(p) :
                               \A n \in StoredNumbers(p) : n <= m) + 1]_vars

\* two tasks created, the first deleted, a third created: numbers 1, 2, 3,
\* while the other project holds a task as well
C6_Witness ==
    /\ ret.op = "create_task" /\ ret.res = "ok" /\ ret.value = 3
    /\ assigned[ret.project_id] = <<1, 2, 3>>
    /\ StoredNumbers(ret.project_id) = {2, 3}
    /\ \E q \in DOMAIN projects : q # ret.project_id /\ StoredNumbers(q) # {}

\* ---------------------------------------------------------------- invites
Expired(c) == invites[c].expires_at # NULL /\ invites[c].expires_at < now
Exhausted(c) == invites[c].max_uses # NULL /\ invites[c].current_uses >= invites[c].max_uses

\* u may join through c: a registered user, neither owner nor member of the
\* invite's project, and the invite is stored, unexpired and limited
Eligible(u, c) ==
    /\ c \in DOMAIN invites
    /\ ~Expired(c)
    /\ invites[c].max_uses # NULL
    /\ u \in DOMAIN users
    /\ OwnerOf(invites[c].project_id) # u
    /\ ~HasRow(invites[c].project_id, u)

\* C7: of the acceptances of an unexpired invite with max_uses = N by
\* eligible users, the first N each create a membership row and any later
\* one creates none (granted counts the rows created through the invite).
C7_ExactlyMaxUsesRows ==
    [][ret'.op = "handle_invite_acceptance"
       => LET u == ret'.user_id
              c == ret'.invite_code
          IN (Accept(0, u, c) /\ Eligible(u, c))
             => IF granted[c] < invites[c].max_uses
                THEN /\ <<invites[c].project_id, u>> \in DOMAIN project_members'
                     /\ granted'[c] = granted[c] + 1
                ELSE project_members' = project_members]_vars

\* the (N+1)-th eligible user has been turned away from an invite with N = MaxUses
C7_Witness ==
    /\ ret.op = "handle_invite_acceptance" /\ ret.value = 0
    /\ ret.res = "InviteMaxUsesReachedError"
    /\ ret.invite_code \in DOMAIN invites
    /\ invites[ret.invite_code].max_uses = MaxUses
    /\ granted[ret.invite_code] = MaxUses
    /\ Cardinality(DOMAIN project_members) = MaxUses
    /\ Eligible(ret.user_id, ret.invite_code)

\* C8: the acceptance that brings current_uses to max_uses deletes the
\* invite in the same call: no stored invite has current_uses = max_uses.
C8_NoExhaustedInviteStored ==
    \A c \in DOMAIN invites :
        invites[c].max_uses # NULL => invites[c].current_uses # invites[c].max_uses

\* C9: the acceptance that consumes the last use of an invite returns the
\* new ProjectMember instead of raising.
C9_LastUseReturns ==
    (/\ ret.op = "handle_invite_acceptance" /\ ret.value = 1
     /\ \/ ret.invite_code \notin DOMAIN invites
        \/ invites[ret.invite_code].current_uses = invites[ret.invite_code].max_uses)
    => ret.res = "ok"

\* one of the five pre-checks of handle_invite_acceptance turns (u, c) away
PreCheckRejects(u, c) ==
    \/ c \notin DOMAIN invites
    \/ Expired(c)
    \/ Exhausted(c)
    \/ u \notin DOMAIN users
    \/ HasRow(invites[c].project_id, u)

PreCheckErrors ==
    {"InviteNotFoundError", "InviteExpiredError", "InviteMaxUsesReachedError",
     "UserNotFoundError", "UserAlreadyMemberError"}

\* C10: an acceptance turned away by a pre-check (code not found, expired,
\* exhausted, user not found, already a member) creates no membership row
\* and leaves the invite as it was.
C10_RejectedAcceptanceWritesNothing ==
    [][ret'.op = "handle_invite_acceptance"
       => LET u == ret'.user_id
              c == ret'.invite_code
          IN (Accept(0, u, c) /\ PreCheckRejects(u, c))
             => /\ project_members' = project_members
                /\ invites' = invites
                /\ ret'.res \in PreCheckErrors]_vars

\* an otherwise acceptable user has been turned away from an expired invite
C10_Witness ==
    /\ ret.op = "handle_invite_acceptance" /\ ret.res = "InviteExpiredError"
    /\ ret.invite_code \in DOMAIN invites
    /\ Expired(ret.invite_code) /\ ~Exhausted(ret.invite_code)
    /\ ret.user_id \in DOMAIN users
    /\ ~HasRow(invites[ret.invite_code].project_id, ret.user_id)

\* C11: when the increment of an acceptance reaches max_uses and
\* increment_invite_uses raises InviteMaxUsesReachedError, the membership
\* row inserted just before stays committed and the incremented
\* current_uses is persisted.
C11_ExhaustionKeepsMembership ==
    [][(ret'.op = "handle_invite_acceptance" /\ ret'.res = "InviteMaxUsesReachedError")
       => LET u == ret'.user_id
              c == ret'.invite_code
          IN (/\ Accept(0, u, c) /\ Eligible(u, c)
              /\ invites[c].current_uses + 1 = invites[c].max_uses)
             => /\ <<invites[c].project_id, u>> \in DOMAIN project_members'
                /\ project_members'[<<invites[c].project_id, u>>] = "member"
                /\ c \in DOMAIN invites'
                /\ invites'[c].current_uses = invites[c].current_uses + 1]_vars

\* the second acceptance of an invite with max_uses = MaxUses has raised
\* after its row was inserted
C11_Witness ==
    /\ ret.op = "handle_invite_acceptance" /\ ret.res = "InviteMaxUsesReachedError"
    /\ ret.value = 1
    /\ ret.invite_code \in DOMAIN invites
    /\ invites[ret.invite_code].max_uses = MaxUses
    /\ invites[ret.invite_code].current_uses = MaxUses
    /\ HasRow(invites[ret.invite_code].project_id, ret.user_id)

\* ------------------------------------------------------- task completion
\* the step is the update_task call that ret' describes
UpdateTaskStep ==
    /\ ret'.op = "update_task"
    /\ DoUpdateTask(0, ret'.value.task_id, ret'.value.title, ret'.value.description,
                    ret'.value.status, ret'.value.assignee_user_id, ret'.value.due_date)

\* C12: a stored task has a non-null completed_at if and only if its status
\* is 'completed', in every state reached by create_task and update_task
\* calls, tasks created directly with status 'completed' included.
C12_CompletedAtIffCompleted ==
    \A t \in DOMAIN tasks : (tasks[t].completed_at # NULL) <=> (tasks[t].status = "completed")

\* C13: a successful update_task stamps completed_at exactly when the status
\* stored before was not 'completed' and the status stored after is, clears
\* it exactly when the status stored before was 'completed' and the status
\* after is not, and otherwise leaves it as it was, whatever else the call
\* changes.
C13_CompletedAtFollowsTransition ==
    [][(UpdateTaskStep /\ ret'.res = "ok")
       => LET t == ret'.value.task_id
              before == tasks[t]
              after == tasks'[t]
          IN IF before.status # "completed" /\ after.status = "completed"
             THEN after.completed_at = now /\ after.completed_at # NULL
             ELSE IF before.status = "completed" /\ after.status # "completed"
             THEN after.completed_at = NULL
             ELSE after.completed_at = before.completed_at]_vars

\* a task completed at an earlier time has been updated in title, assignee
\* and due date with its status passed again as 'completed'
C13_Witness ==
    /\ ret.op = "update_task" /\ ret.res = "ok"
    /\ ret.value.status = "completed" /\ ret.value.title = "other"
    /\ ret.value.assignee_user_id = 1 /\ ret.value.due_date = 1
    /\ ret.value.commits = 1
    /\ tasks[ret.value.task_id].title = "other"
    /\ tasks[ret.value.task_id].completed_at # NULL
    /\ tasks[ret.value.task_id].completed_at < now

\* --------------------------------------------------------- task creation
\* the errors that match the checks of create_task that fail for the
\* arguments, in the tables before the call
CreateTaskErrors(p, creator, chat, assignee, status) ==
    (IF p \notin DOMAIN projects THEN {"ProjectNotFoundError"} ELSE {})
    \cup (IF creator \notin DOMAIN users \/ (assignee # NULL /\ assignee \notin DOMAIN users)
          THEN {"UserNotFoundError"} ELSE {})
    \cup (IF chat \notin DOMAIN chats THEN {"ChatNotFoundError"} ELSE {})
    \cup (IF status \notin {"new", "in_progress", "review", "completed", "cancelled"}
          THEN {"InvalidTaskStatusError"} ELSE {})

\* the step is the create_task call that ret' describes
CreateTaskStep ==
    /\ ret'.op = "create_task"
    /\ CreateTaskWith(MaxCreatedTasks, 0, ret'.project_id, ret'.user_id,
                      ret'.value.chat_id_created_in, ret'.value.assignee_user_id,
                      ret'.value.status)

\* C14: create_task stores a task only if the project, the creator, the
\* chat and the assignee (when given) exist and the status is one of the
\* five; when a check fails it raises the matching NotFound error or
\* InvalidTaskStatusError, stores no task row and leaves the next
\* task_id_in_project of every project as it was.
C14_CreateTaskValidates ==
    [][CreateTaskStep
       => LET errors == CreateTaskErrors(ret'.project_id, ret'.user_id,
                                         ret'.value.chat_id_created_in,
                                         ret'.value.assignee_user_id, ret'.value.status)
          IN IF errors # {}
             THEN /\ ret'.res \in errors
                  /\ tasks' = tasks /\ task_seq' = task_seq
                  /\ \A q \in DOMAIN projects : NextNumber(DB', q) = NextNumber(DB, q)
             ELSE /\ ret'.res = "ok"
                  /\ Cardinality(DOMAIN tasks') = Cardinality(DOMAIN tasks) + 1]_vars

\* a call with an unknown status for a project that holds tasks was refused
C14_Witness ==
    /\ ret.op = "create_task" /\ ret.res = "InvalidTaskStatusError"
    /\ ret.value.status = "no_such_status" /\ ret.value.assignee_user_id = 1
    /\ ret.project_id \in DOMAIN projects
    /\ StoredNumbers(ret.project_id) = {1, 2}
    /\ \A t \in DOMAIN tasks : tasks[t].status \in TaskStatus

UpsertStep ==
    /\ ret'.op = "get_or_create_and_update_user"
    /\ DoUpsertUser(0, ret'.user_id, ret'.value.username, ret'.value.first_name,
                    ret'.value.is_bot)

SameUpsertArguments ==
    /\ ret'.user_id = ret.user_id
    /\ ret'.value.username = ret.value.username
    /\ ret'.value.first_name = ret.value.first_name
    /\ ret'.value.is_bot = ret.value.is_bot

\* C16: a get_or_create_and_update_user call that directly follows a
\* successful one with the same (user_id, username, first_name, is_bot)
\* commits nothing, writes nothing and returns a user equal to the one the
\* first call returned.
C16_UpsertIdempotent ==
    [][(/\ ret.op = "get_or_create_and_update_user" /\ ret.res = "ok"
        /\ UpsertStep
        /\ SameUpsertArguments)
       => /\ ret'.res = "ok"
          /\ ret'.value.commits = 0
          /\ users' = users
          /\ ret'.value.returned = ret.value.returned]_vars

\* a repeated upsert of a user that holds a username has returned without
\* a commit while another user is stored too
C16_Witness ==
    /\ ret.op = "get_or_create_and_update_user" /\ ret.res = "ok"
    /\ ret.value.commits = 0 /\ ret.value.existed
    /\ ret.value.username = "ann" /\ ret.value.first_name = "other" /\ ret.value.is_bot
    /\ ret.value.returned = <<users[ret.user_id]>>
    /\ Cardinality(DOMAIN users) = 2

\* C17: after a successful get_or_create_and_update_user the stored user
\* has exactly the username (null when None was passed, whatever was
\* stored), first_name and is_bot passed; no other row changes; for a user
\* stored before, a commit is made exactly when a field differed.
C17_UpsertStoresArguments ==
    [][(UpsertStep /\ ret'.res = "ok")
       => LET u == ret'.user_id
              v == ret'.value
          IN /\ DOMAIN users' = DOMAIN users \cup {u}
             /\ users'[u] = [username |-> v.username, first_name |-> v.first_name,
                             is_bot |-> v.is_bot]
             /\ \A w \in DOMAIN users \ {u} : users'[w] = users[w]
             /\ IF u \in DOMAIN users
                THEN (v.commits = 1) <=> (users'[u] # users[u])
                ELSE v.commits = 1]_vars

\* None was passed for a user whose username was stored: it is cleared
C17_Witness ==
    /\ ret.op = "get_or_create_and_update_user" /\ ret.res = "ok"
    /\ ret.value.existed /\ ret.value.previous_username = "ann"
    /\ ret.value.username = NoUsername /\ ret.value.commits = 1
    /\ users[ret.user_id].username = NoUsername

\* -------------------------------------------------------- project updates
\* the step is the update_project call that ret' describes
UpdateProjectStep ==
    /\ ret'.op = "update_project"
    /\ DoUpdateProject(0, ret'.project_id, ret'.value.name, ret'.value.description)

\* C18: update_project leaves a field whose argument is omitted as it was,
\* stores None passed for description as null, and makes no commit (and
\* changes nothing) when every value passed equals the stored one.
C18_UpdateProjectFrame ==
    [][(UpdateProjectStep /\ ret'.project_id \in DOMAIN projects)
       => LET p == ret'.project_id
              v == ret'.value
              nothing_new == /\ v.name \in {sentinel_str, projects[p].name}
                             /\ v.description \in {sentinel_str, projects[p].description}
          IN /\ v.name = sentinel_str => projects'[p].name = projects[p].name
             /\ v.description = sentinel_str
                   => projects'[p].description = projects[p].description
             /\ (ret'.res = "ok" /\ v.description = None) => projects'[p].description = None
             /\ (ret'.res = "ok" /\ v.name # sentinel_str) => projects'[p].name = v.name
             /\ nothing_new => (ret'.res = "ok" /\ v.commits = 0 /\ projects' = projects)
             /\ projects'[p].owner_user_id = projects[p].owner_user_id
             /\ \A q \in DOMAIN projects \ {p} : projects'[q] = projects[q]]_vars

\* None was passed for the description of a renamed project that had one,
\* with the name omitted
C18_Witness ==
    /\ ret.op = "update_project" /\ ret.res = "ok"
    /\ ret.value.name = sentinel_str /\ ret.value.description = None
    /\ ret.value.previous_description = "text" /\ ret.value.commits = 1
    /\ projects[ret.project_id].name = "gamma"
    /\ projects[ret.project_id].description = None

\* ------------------------------------------------------------ task updates
\* C19: update_task leaves every field whose argument is omitted (None for
\* title, description and status, the sentinel for assignee_user_id and
\* due_date) as it was, clears assignee or due date when None is passed for
\* them, makes exactly one commit when a stored field changes and none when
\* every value passed equals the stored one.
C19_UpdateTaskFrame ==
    [][(UpdateTaskStep /\ ret'.value.task_id \in DOMAIN tasks)
       => LET t == ret'.value.task_id
              v == ret'.value
              before == tasks[t]
              after == tasks'[t]
              nothing_new == /\ v.title \in {None, before.title}
                             /\ v.description \in {None, before.description}
                             /\ v.status \in {None, before.status}
                             /\ v.assignee_user_id \in {sentinel, before.assignee_user_id}
                             /\ v.due_date \in {sentinel, before.due_date}
          IN /\ v.title = None => after.title = before.title
             /\ v.description = None => after.description = before.description
             /\ v.status = None => after.status = before.status
             /\ v.assignee_user_id = sentinel
                   => after.assignee_user_id = before.assignee_user_id
             /\ v.due_date = sentinel => after.due_date = before.due_date
             /\ (ret'.res = "ok" /\ v.assignee_user_id = NULL) => after.assignee_user_id = NULL
             /\ (ret'.res = "ok" /\ v.due_date = NULL) => after.due_date = NULL
             /\ ret'.res = "ok" => v.commits = (IF after # before THEN 1 ELSE 0)
             /\ nothing_new => (ret'.res = "ok" /\ v.commits = 0 /\ tasks' = tasks)
             /\ (ret'.res = "ok" /\ ~nothing_new) => after # before
             /\ \A x \in DOMAIN tasks \ {t} : tasks'[x] = tasks[x]]_vars

\* assignee and due date of a task that had both were cleared in one call
\* that passed nothing else
C19_Witness ==
    /\ ret.op = "update_task" /\ ret.res = "ok"
    /\ ret.value.title = None /\ ret.value.description = None /\ ret.value.status = None
    /\ ret.value.assignee_user_id = NULL /\ ret.value.due_date = NULL
    /\ ret.value.commits = 1
    /\ tasks[ret.value.task_id].title = "other"
    /\ tasks[ret.value.task_id].description = "more"
    /\ tasks[ret.value.task_id].status = "completed"
    /\ tasks[ret.value.task_id].assignee_user_id = NULL
    /\ tasks[ret.value.task_id].due_date = NULL

\* ------------------------------------------------------ projects of a user
\* C20: get_user_projects_with_roles returns at most one entry per project;
\* a project owned by the user is listed with role 'owner', also when a
\* membership row of the user for it is stored; any other project where the
\* user has a membership row is listed with the stored role.
C20_OwnedProjectsListedAsOwner ==
    (ret.op = "get_user_projects_with_roles" /\ ret.res = "ok")
    => LET u == ret.user_id
           listed == ret.value
       IN /\ \A i, j \in 1..Len(listed) : listed[i][1] = listed[j][1] => i = j
          /\ \A p \in DOMAIN projects :
                IF projects[p].owner_user_id = u
                THEN \E i \in 1..Len(listed) : listed[i] = <<p, "owner">>
                ELSE HasRow(p, u)
                     => \E i \in 1..Len(listed) : listed[i] = <<p, project_members[<<p, u>>]>>

\* ------------------------------------------------------ project deletion
\* every stored membership, task and invite references a stored project
ReferencesStoredProjects ==
    /\ \A k \in DOMAIN project_members : k[1] \in DOMAIN projects
    /\ \A t \in DOMAIN tasks : tasks[t].project_id \in DOMAIN projects
    /\ \A c \in DOMAIN invites : invites[c].project_id \in DOMAIN projects

\* the step is the delete_project call that ret' describes
DeleteProjectStep ==
    /\ ret'.op = "delete_project"
    /\ \E r \in {delete_project(DB, 0, ret'.project_id)} : Store(r.db) /\ ret'.res = r.res

\* C21: after a successful delete_project(p) no membership, task or invite
\* row references p, and the projects, memberships, tasks and invites of
\* every other project are as before; every stored membership, task and
\* invite always references a stored project.
C21_DeleteProjectCascades ==
    /\ []ReferencesStoredProjects
    /\ [][(DeleteProjectStep /\ ret'.res = "ok")
          => LET p == ret'.project_id
             IN /\ DOMAIN projects' = DOMAIN projects \ {p}
                /\ \A q \in DOMAIN projects' : projects'[q] = projects[q]
                /\ DOMAIN project_members' = {k \in DOMAIN project_members : k[1] # p}
                /\ \A k \in DOMAIN project_members' :
                      project_members'[k] = project_members[k]
                /\ DOMAIN tasks' = {t \in DOMAIN tasks : tasks[t].project_id # p}
                /\ \A t \in DOMAIN tasks' : tasks'[t] = tasks[t]
                /\ DOMAIN invites' = {c \in DOMAIN invites : invites[c].project_id # p}
                /\ \A c \in DOMAIN invites' : invites'[c] = invites[c]]_vars

\* a project with a member, a task and the invite was deleted while the
\* other project keeps its member and its tasks
C21_Witness ==
    /\ ret.op = "delete_project" /\ ret.res = "ok" /\ ret.value >= 3
    /\ \E q \in DOMAIN projects :
          /\ \E u \in UserIds : HasRow(q, u)
          /\ Cardinality({t \in DOMAIN tasks : tasks[t].project_id = q}) = 2

\* ----------------------------------------------------------- error taxonomy
NotFoundErrors ==
    {"UserNotFoundError", "ProjectNotFoundError", "MemberNotFoundError",
     "TaskNotFoundError", "InviteNotFoundError", "ChatNotFoundError"}

ConflictErrors ==
    {"ProjectNameConflictError", "UserAlreadyMemberError", "InviteCodeConflictError",
     "ChatAlreadyExistsError", "UserAlreadyExistsError", "UserAlreadyProjectOwner",
     "InviteExpiredError", "InviteMaxUsesReachedError", "InvalidTaskStatusError",
     "OwnerCannotBeMemberError", "ChatAlreadyLinkedToProjectError",
     "ChatNotLinkedToProjectError"}

\* C22: with a storage failure at any single storage call of an operation,
\* the error that reaches the caller is a NotFound variant, a Conflict
\* variant or DatabaseError, never a raw storage exception.
C22_ErrorsInTaxonomy ==
    ret.res \in {"ok", "DatabaseError"} \cup NotFoundErrors \cup ConflictErrors

\* ------------------------------------------------------ failed commits
\* C23: when the commit of a state-mutating operation fails, the operation
\* rolls the session back before it raises: the stored rows are as before
\* the call and the session holds no pending change that a later commit on
\* it could write.
C23_FailedCommitRollsBack ==
    [][\A s \in SessionIds :
          (sess'[s].commit_failed /\ ~sess[s].commit_failed)
          => /\ users' = users
             /\ sess'[s].rolled_back
             /\ sess'[s].pending = {}]_vars

\* -------------------------------------------------------- concurrent upserts
\* C28: get_or_create_and_update_user returns the user or raises
\* DatabaseError and nothing else; of two concurrent calls for one user_id
\* that is not stored, exactly one creates the row and neither raises
\* UserAlreadyExistsError.
C28_UpsertRaisesOnlyDatabaseError ==
    \A s \in SessionIds :
        (sess[s].pc = "done" /\ sess[s].op = "get_or_create_and_update_user")
        => sess[s].res \in {"ok", "DatabaseError"}

\* ----------------------------------------------------------- use counters
\* C29: current_uses of an invite with a max_uses never exceeds max_uses in
\* any state reached by increment_invite_uses and handle_invite_acceptance
\* calls: increment_invite_uses on an invite whose current_uses has reached
\* max_uses raises InviteMaxUsesReachedError and leaves current_uses as it
\* was.
C29_UsesNeverExceedLimit ==
    \A c \in DOMAIN invites :
        invites[c].max_uses # NULL => invites[c].current_uses <= invites[c].max_uses

\* ------------------------------------------------------------ invite codes
\* the step is the create_invite call that ret' describes
CreateInviteStep ==
    /\ ret'.op = "create_invite"
    /\ DoCreateInvite(0, ret'.project_id, ret'.user_id, ret'.invite_code, ret'.value)

\* C30: stored invites have pairwise distinct codes; create_invite with a
\* code that a stored invite holds raises InviteCodeConflictError, stores no
\* invite and leaves the stored invites as they were; with a free code, a
\* stored project and a registered user it stores one invite under that
\* code next to the others.
C30_UniqueInviteCodes ==
    [][CreateInviteStep
       => LET c == ret'.invite_code IN
          IF ret'.project_id \notin DOMAIN projects \/ ret'.user_id \notin DOMAIN users
          THEN invites' = invites
          ELSE IF c \in DOMAIN invites
          THEN ret'.res = "InviteCodeConflictError" /\ invites' = invites
          ELSE /\ ret'.res = "ok"
               /\ DOMAIN invites' = DOMAIN invites \cup {c}
               /\ invites'[c].current_uses = 0 /\ invites'[c].max_uses = ret'.value
               /\ \A d \in DOMAIN invites : invites'[d] = invites[d]]_vars

\* a used code was asked for again, with another limit, while both codes
\* are held
C30_Witness ==
    /\ ret.op = "create_invite" /\ ret.res = "InviteCodeConflictError"
    /\ DOMAIN invites = TwoCodes
    /\ invites[ret.invite_code].current_uses = 1
    /\ invites[ret.invite_code].max_uses = 2 /\ ret.value = 1

\* ------------------------------------------------------- concurrent tasks
\* the calls that have committed their task
Committed == {s \in SessionIds : sess[s].pc = "refresh" \/ (sess[s].pc = "done" /\ sess[s].res = "ok")}

\* C26: no two stored tasks share (project_id, task_id_in_project), also
\* when two concurrent create_task calls have computed the same next
\* number: at most one of them commits a task with it and the other stores
\* no task.
C26_UniqueTaskNumbers ==
    /\ \A t, x \in DOMAIN tasks :
          (/\ tasks[t].project_id = tasks[x].project_id
           /\ tasks[t].task_id_in_project = tasks[x].task_id_in_project) => t = x
    /\ Cardinality(DOMAIN tasks) = Cardinality(Committed)
    /\ \A s, t \in Committed :
          (/\ sess[s].project_id = sess[t].project_id
           /\ sess[s].next_task_id_in_project = sess[t].next_task_id_in_project) => s = t

\* both calls computed number 1 for project 1; one returned the task, the
\* other raised
C26_Witness ==
    /\ \A s \in SessionIds :
          /\ sess[s].pc = "done" /\ sess[s].project_id = 1
          /\ sess[s].next_task_id_in_project = 1
    /\ sess[1].res = "DatabaseError" /\ sess[2].res = "ok"
    /\ Cardinality(DOMAIN tasks) = 1

\* ------------------------------------------------- concurrent memberships
\* every call of the two sessions has returned
Quiescent == \A s \in SessionIds : sess[s].pc \in {"idle", "done"}

\* the call of session s was op and has returned
Finished(s, op) == sess[s].pc = "done" /\ sess[s].op = op

\* C24: when two distinct eligible users accept, concurrently, an invite
\* with exactly one use left, each call either returns with its membership
\* granted, or raises InviteMaxUsesReachedError after its membership was
\* granted, or is turned away by the not-found, expired or exhausted test
\* with no membership granted; at least one user is granted membership, and
\* afterwards the invite has been deleted.
C24_LastUseUnderConcurrency ==
    (/\ ret.value = MaxUses - 1
     /\ \A s \in SessionIds : Finished(s, "handle_invite_acceptance")
     /\ sess[1].user_id # sess[2].user_id)
    => /\ \A s \in SessionIds :
             \/ sess[s].granted /\ sess[s].res \in {"ok", "InviteMaxUsesReachedError"}
             \/ /\ ~sess[s].granted
                /\ sess[s].res \in {"InviteNotFoundError", "InviteExpiredError",
                                    "InviteMaxUsesReachedError"}
       /\ \E s \in SessionIds : sess[s].granted
       /\ "ABC" \notin DOMAIN invites

\* C25: no project has a membership row for its own owner after any
\* interleaving of transfer_project_ownership(p, u) with
\* add_member_to_project(p, u) or with handle_invite_acceptance by u for an
\* invite of p.
C25_OwnerNeverMemberUnderConcurrency ==
    Quiescent => \A p \in DOMAIN projects : ~HasRow(p, projects[p].owner_user_id)

\* C27: of two concurrent add_member_to_project calls for the same
\* (project_id, user_id) that both pass the test for a stored row, exactly
\* one inserts the row and the other raises UserAlreadyMemberError, not
\* DatabaseError.
C27_DuplicateAdditionReported ==
    (/\ \A s \in SessionIds : Finished(s, "add_member_to_project")
     /\ sess[1].user_id = sess[2].user_id)
    => /\ {sess[1].res, sess[2].res} = {"ok", "UserAlreadyMemberError"}
       /\ Cardinality({s \in SessionIds : sess[s].granted}) = 1

\* -------------------------------------------------------------- chat links
\* the stored links (project_id, chat_id)
Links(table) == {<<p, c>> \in ProjectIds \X DOMAIN table : p \in table[c].projects}

AddChatStep == ret'.op = "add_chat_to_project" /\ DoAddChat(0, ret'.project_id, ret'.value.chat_id)

RemoveChatStep == ret'.op = "remove_chat_from_project" /\ DoRemoveChat(0, ret'.project_id, ret'.value.chat_id)

TransferStep == ret'.op = "transfer_project_ownership" /\ Transfer(0, ret'.project_id, ret'.user_id)

\* transfer_project_ownership(p, owner of p) makes its two lookups and no
\* further storage call: a fault at any later position is never met, and
\* the tables are returned as they were
NoStorageCallAfterLookups ==
    \A p \in DOMAIN projects :
        projects[p].owner_user_id \in DOMAIN users
        => \A f \in FaultPositions \ {1, 2} :
              \E r \in {transfer_project_ownership(DB, f, p, projects[p].owner_user_id)} :
                 r.res = "ok" /\ r.db = DB /\ r.f = Pass(Pass(f))

\* C32: transfer_project_ownership with new_owner_user_id equal to the
\* current owner writes nothing and commits nothing: owner_user_id and all
\* membership rows are as before and the project is returned.
C32_TransferToOwnerIsNoOp ==
    /\ []NoStorageCallAfterLookups
    /\ [][(TransferStep /\ ret'.user_id = ret'.value)
          => /\ ret'.res = "ok"
             /\ projects' = projects
             /\ project_members' = project_members]_vars

\* the owner of a project with a member was asked for as the new owner
\* after a transfer had changed the owner
C32_Witness ==
    /\ ret.op = "transfer_project_ownership" /\ ret.res = "ok"
    /\ ret.user_id = ret.value
    /\ projects[ret.project_id].owner_user_id = ret.user_id
    /\ ret.user_id # ret.project_id
    /\ \E u \in DOMAIN users : HasRow(ret.project_id, u)

\* -------------------------------------------------- failed task updates
UpdateTaskInStep ==
    /\ ret'.op = "update_task"
    /\ DoUpdateTaskIn(ret'.value.session, ret'.value.task_id, ret'.value.title,
                      ret'.value.description, ret'.value.status,
                      ret'.value.assignee_user_id, ret'.value.due_date)

\* C33: when update_task raises InvalidTaskStatusError or UserNotFoundError
\* no field of the task changes, neither at once nor when the caller later
\* commits another operation through the same session: the call leaves the
\* stored tasks and the objects held by the session as they were.
C33_FailedUpdateLeavesNothingPending ==
    [][(UpdateTaskInStep /\ ret'.res \in {"InvalidTaskStatusError", "UserNotFoundError"})
       => /\ tasks' = tasks
          /\ sess'[ret'.value.session].dirty = sess[ret'.value.session].dirty]_vars

\* the same, seen from the stored tasks: a committing update_task changes
\* the task it names, and of that task only fields it passed
C33_CommitWritesOwnArguments ==
    [][(UpdateTaskInStep /\ ret'.res = "ok")
       => LET v == ret'.value IN
          /\ \A x \in DOMAIN tasks \ {v.task_id} : tasks'[x] = tasks[x]
          /\ v.title = None => tasks'[v.task_id].title = tasks[v.task_id].title
          /\ v.description = None
                => tasks'[v.task_id].description = tasks[v.task_id].description]_vars

\* ------------------------------------------------- project name conflicts
HeldByAnother(p, name) == \E q \in DOMAIN projects \ {p} : projects[q].name = name

\* C35: update_project with a new name that another project holds fails
\* with ProjectNameConflictError and leaves every stored project, name and
\* description of the updated one included, as before, also when the call
\* passed a new description.
C35_NameConflictChangesNothing ==
    [][(/\ UpdateProjectStep
        /\ ret'.project_id \in DOMAIN projects
        /\ HeldByAnother(ret'.project_id, ret'.value.name))
       => /\ ret'.res = "ProjectNameConflictError"
          /\ projects' = projects]_vars

\* a call that passed the name of the other project together with a
\* description different from the stored one has failed
C35_Witness ==
    /\ ret.op = "update_project" /\ ret.res = "ProjectNameConflictError"
    /\ ret.project_id \in DOMAIN projects
    /\ HeldByAnother(ret.project_id, ret.value.name)
    /\ ret.value.description = "more" /\ ret.value.previous_description = "text"
    /\ projects[ret.project_id].description = "text"

\* ---------------------------------------------------------- task statuses
StatusOfCreateStep ==
    /\ ret'.op = "create_task"
    /\ CreateTaskWith(MaxUpdatedTasks + 1, 0, ret'.project_id, ret'.user_id,
                      ret'.value.chat_id_created_in, ret'.value.assignee_user_id,
                      ret'.value.status)

StatusOfUpdateStep == UpdateTaskStep /\ ret'.value.task_id \in DOMAIN tasks

\* C36: in every state reached by create_task and update_task calls with
\* arbitrary status arguments the status of every stored task is one of
\* 'new', 'in_progress', 'review', 'completed', 'cancelled'; a call with any
\* other status raises InvalidTaskStatusError and leaves the stored tasks,
\* their statuses included, as they were.
C36_StoredStatusesAreValid ==
    /\ [](\A x \in DOMAIN tasks : tasks[x].status \in TaskStatus)
    /\ [][((StatusOfCreateStep \/ StatusOfUpdateStep)
           /\ ret'.value.status \notin TaskStatus \cup {None})
          => (ret'.res = "InvalidTaskStatusError" /\ tasks' = tasks)]_vars

\* update_task with a status outside the enumeration has been refused for
\* a stored task, which still has the status it was given before
C36_Witness ==
    /\ ret.op = "update_task" /\ ret.res = "InvalidTaskStatusError"
    /\ ret.value.status = "no_such_status"
    /\ ret.value.task_id \in DOMAIN tasks
    /\ tasks[ret.value.task_id].status = "review"

\* ---------------------------------------------------------- user creation
CreateUserStep ==
    /\ ret'.op = "create_user"
    /\ DoCreateUserNamed(0, ret'.user_id, ret'.value.username)

\* C37: create_user raises UserAlreadyExistsError exactly when a user with
\* the user_id passed is stored, so a failure with another cause, such as
\* a username that a different user holds, is not reported as
\* UserAlreadyExistsError; whenever the call fails the stored users are as
\* before.
C37_AlreadyExistsMeansSameUserId ==
    [][CreateUserStep
       => /\ (ret'.res = "UserAlreadyExistsError") <=> (ret'.user_id \in DOMAIN users)
          /\ ret'.res # "ok" => users' = users]_vars

\* ------------------------------------------------------ the /invite loop
\* C38: the invite code the /invite handler passes to create_invite is
\* always a code that a get_invite_by_code lookup of that same generated
\* code has just reported not found: when the handler is about to call
\* create_invite, the code it holds is the one it looked up last and no
\* stored invite has it.
C38_CreateGetsLookedUpCode ==
    \A s \in SessionIds :
        sess[s].pc = "create"
        => /\ sess[s].looked_up = sess[s].invite_code
           /\ sess[s].invite_code \notin DOMAIN invites

\* C38, the loop: it repeats while the generated code is held by a stored
\* invite
C38_LoopRepeatsOnStoredCode ==
    [][\A s \in SessionIds :
          (handle_invite_lookup(s) /\ sess[s]._invite_code \in DOMAIN invites)
          => sess'[s].pc = "generate"]_vars

\* ------------------------------------------------ transfers of ownership
HasProject(u) == projects[1].owner_user_id = u \/ <<1, u>> \in DOMAIN project_members

\* C34: a transfer of ownership never drops a user: after any sequence or
\* interleaving of transfer_project_ownership calls on one project, two
\* concurrent transfers to different new owners included, every user who
\* was owner or member before the calls is owner or member when all calls
\* have finished.
C34_TransferDropsNoUser ==
    Quiescent => \A u \in ret.value : HasProject(u)

====
